---- MODULE Spec2Model ----
(***************************************************************************)
(* Model of the daily aggregation / gap segmentation / derived metric      *)
(* pipeline of the health data analysis package (src/analysis).            *)
(*                                                                         *)
(* Numbers: Python floats are modelled as exact rationals [n, d] in lowest *)
(* terms with d > 0; rounding of binary floating point is not modelled.    *)
(* Timestamps: a datetime is [day, tod] (calendar day number, time of day);  *)
(* a date is the day number.                                               *)
(***************************************************************************)
EXTENDS Integers, Sequences, FiniteSets, TLC

VARIABLES pc, data, aggregation, result,
          component_data, raw_data, ret,
          series, gap_days, segments,
          window_days, rolling_data,
          special_processing, min_data_points, self_daily_data, statistics,
          calls, run_ret,
          data_types, args, next_type, success_count, attempted, main_ret,
          analyzers, save_graph, common_period, graph_filename, rendered,
          self_data_type, config_overrides, data_config, analysis_config,
          construct_ret

vars == <<pc, data, aggregation, result, component_data, raw_data, ret,
          series, gap_days, segments, window_days, rolling_data,
          special_processing, min_data_points, self_daily_data, statistics,
          calls, run_ret,
          data_types, args, next_type, success_count, attempted, main_ret,
          analyzers, save_graph, common_period, graph_filename, rendered,
          self_data_type, config_overrides, data_config, analysis_config,
          construct_ret>>

\* The variables of the rolling average.
rollingVars == <<window_days, rolling_data>>

\* The variables of one analyzer and of its run_analysis.
analyzerVars == <<special_processing, min_data_points, self_daily_data, statistics,
                  calls, run_ret>>

\* The variables of main (analyze_health_data.py) in a batch run.
batchVars == <<data_types, args, next_type, success_count, attempted, main_ret>>

\* The variables of a MultiDataAnalyzer and of its dual-axis graph.
multiVars == <<analyzers, save_graph, common_period, graph_filename, rendered>>

\* The configuration of one GenericHealthAnalyzer: the data type and the
\* overrides it is constructed with, its data_config and analysis_config
\* (dicts are functions on their keys), and what the constructor did.
configVars == <<self_data_type, config_overrides, data_config, analysis_config,
                construct_ret>>

(***************************************************************************)
(* Bounds of the model.                                                    *)
(***************************************************************************)
MaxSamples == 3
MaxDay == 2
MaxCommonDay == 2
MaxSeriesDay == 7
MaxGapDays == 3
MaxWindowDays == 7
MaxDataDays == 5
MaxTypes == 3

(***************************************************************************)
(* Exact rational arithmetic standing for float arithmetic.                *)
(***************************************************************************)
Abs(x) == IF x < 0 THEN -x ELSE x

RECURSIVE GCD(_, _)
GCD(a, b) == IF b = 0 THEN a ELSE GCD(b, a % b)

Rat(n, d) ==
    LET s == IF d < 0 THEN -1 ELSE 1
        g == GCD(Abs(n), Abs(d))
    IN  [n |-> (s * n) \div g, d |-> (s * d) \div g]

FromInt(k) == [n |-> k, d |-> 1]
RAdd(x, y) == Rat(x.n * y.d + y.n * x.d, x.d * y.d)
RSub(x, y) == Rat(x.n * y.d - y.n * x.d, x.d * y.d)
RDivInt(x, k) == Rat(x.n, x.d * k)
RLess(x, y) == x.n * y.d < y.n * x.d

(***************************************************************************)
(* datetime / date (src/analysis/utils.py uses datetime.date(),            *)
(* datetime.combine(date, datetime.min.time()) and timedelta.days).        *)
(***************************************************************************)
\* Time of day: 0 is 00:00:00 (datetime.min.time()), 1 a later time that day.
TimesOfDay == {0, 1}

DateOf(dt) == dt.day

Midnight(date_key) == [day |-> date_key, tod |-> 0]

\* (curr - prev).days: whole days of the difference, rounded down.
DaysBetween(curr, prev) ==
    (curr.day - prev.day) - (IF curr.tod < prev.tod THEN 1 ELSE 0)

(***************************************************************************)
(* float(entry['value']): the value of a loaded row is CSV text, None for  *)
(* a short row, or absent; the value of a daily point is already a float.  *)
(***************************************************************************)
IsFloat(v) == "t" \notin DOMAIN v

ToFloat(entry) ==
    IF "value" \notin DOMAIN entry THEN [exc |-> "KeyError", val |-> FromInt(0)]
    ELSE LET v == entry.value IN
         IF IsFloat(v) THEN [exc |-> "none", val |-> v]
         ELSE IF v.t = "numeric" THEN [exc |-> "none", val |-> FromInt(v.text)]
         ELSE IF v.t = "None" THEN [exc |-> "TypeError", val |-> FromInt(0)]
         ELSE [exc |-> "ValueError", val |-> FromInt(0)]

(***************************************************************************)
(* Reducers: sum(), max(), min(), statistics.mean().                       *)
(***************************************************************************)
RECURSIVE SumFrom(_, _, _)
SumFrom(values, i, acc) ==
    IF i > Len(values) THEN acc ELSE SumFrom(values, i + 1, RAdd(acc, values[i]))

\* Variant: the summation loop starts one element late.
SumFromSecond(values) == SumFrom(values, 2, FromInt(0))

Sum(values) == SumFrom(values, 1, FromInt(0))

\* Variant: floor division instead of true division.
MeanFloorDiv(values) ==
    FromInt((SumFrom(values, 1, FromInt(0)).n \div SumFrom(values, 1, FromInt(0)).d)
            \div Len(values))

Mean(values) == RDivInt(Sum(values), Len(values))

RECURSIVE MaxFrom(_, _, _)
MaxFrom(values, i, best) ==
    IF i > Len(values) THEN best
    ELSE MaxFrom(values, i + 1, IF RLess(best, values[i]) THEN values[i] ELSE best)

Max(values) == MaxFrom(values, 2, values[1])

RECURSIVE MinFrom(_, _, _)
MinFrom(values, i, best) ==
    IF i > Len(values) THEN best
    ELSE MinFrom(values, i + 1, IF RLess(values[i], best) THEN values[i] ELSE best)

Min(values) == MinFrom(values, 2, values[1])

\* Variant: the max and min branches exchanged.
ReduceMaxMinSwapped(agg, values) ==
    IF agg = "mean" THEN Mean(values)
    ELSE IF agg = "sum" THEN Sum(values)
    ELSE IF agg = "max" THEN Min(values)
    ELSE IF agg = "min" THEN Max(values)
    ELSE Mean(values)

Reduce(agg, values) ==
    IF agg = "mean" THEN Mean(values)
    ELSE IF agg = "sum" THEN Sum(values)
    ELSE IF agg = "max" THEN Max(values)
    ELSE IF agg = "min" THEN Min(values)
    ELSE Mean(values)

(***************************************************************************)
(* aggregate_daily_data: group the numeric values by calendar day in input *)
(* order, then one daily point per key of sorted(daily_data.keys()).       *)
(* ValueError and KeyError skip the row; any other exception propagates.   *)
(***************************************************************************)
\* Variant: the keys are not sorted ascending (here: taken descending).
RECURSIVE DescendingSeq(_)
DescendingSeq(S) ==
    IF S = {} THEN <<>>
    ELSE LET m == CHOOSE x \in S : \A y \in S : x >= y
         IN  <<m>> \o DescendingSeq(S \ {m})

RECURSIVE SortedSeq(_)
SortedSeq(S) ==
    IF S = {} THEN <<>>
    ELSE LET m == CHOOSE x \in S : \A y \in S : x <= y
         IN  <<m>> \o SortedSeq(S \ {m})

RECURSIVE CollectDaily(_, _, _)
CollectDaily(entries, i, daily_data) ==
    IF i > Len(entries) THEN [exc |-> "none", daily_data |-> daily_data]
    ELSE LET f == ToFloat(entries[i]) IN
         IF f.exc \in {"ValueError", "KeyError"}
         THEN CollectDaily(entries, i + 1, daily_data)
         ELSE IF f.exc # "none" THEN [exc |-> f.exc, daily_data |-> daily_data]
         ELSE LET date_key == DateOf(entries[i].date)
                  old == IF date_key \in DOMAIN daily_data
                         THEN daily_data[date_key] ELSE <<>>
              IN  CollectDaily(entries, i + 1,
                      [k \in DOMAIN daily_data \cup {date_key} |->
                          IF k = date_key THEN Append(old, f.val)
                          ELSE daily_data[k]])

aggregate_daily_data(entries, agg) ==
    LET c == CollectDaily(entries, 1, <<>>) IN
    IF c.exc # "none" THEN [exc |-> c.exc, daily |-> <<>>]
    ELSE LET keys == SortedSeq(DOMAIN c.daily_data) IN
         [exc |-> "none",
          daily |-> [i \in 1..Len(keys) |->
                        [date |-> Midnight(keys[i]),
                         value |-> Reduce(agg, c.daily_data[keys[i]]),
                         count |-> Len(c.daily_data[keys[i]])]]]

(***************************************************************************)
(* Inputs of the aggregation specification.                                *)
(***************************************************************************)
Aggregations == {"mean", "sum", "max", "min", "median"}

Days == 1..MaxDay
Timestamps == [day : Days, tod : TimesOfDay]
SampleNumbers == {1, 2}

NumericValues == {[t |-> "numeric", text |-> k] : k \in SampleNumbers}

\* Rows whose value cannot be read: non-numeric text, empty text (also what
\* row.get('value', '') gives when the column is absent), None (the restval
\* csv.DictReader gives a short row), and an entry with no value key.  float()
\* fails before the date of such a row is read, so one timestamp stands for all.
UnreadableEntries ==
    {[date |-> [day |-> 1, tod |-> 0], value |-> [t |-> k]] :
        k \in {"nonnumeric", "empty", "None"}}
    \cup {[date |-> [day |-> 1, tod |-> 0]]}

Entries == [date : Timestamps, value : NumericValues] \cup UnreadableEntries

SeqsUpTo(S, n) == UNION {[1..k -> S] : k \in 0..n}

NoResult == [exc |-> "none", daily |-> <<>>]
NoComponents == <<>>

IdleRolling ==
    /\ window_days = 1
    /\ rolling_data = <<>>

IdleAnalyzer ==
    /\ special_processing = "none"
    /\ min_data_points = 0
    /\ self_daily_data = <<>>
    /\ statistics = <<>>
    /\ calls = <<>>
    /\ run_ret = "none"

IdleBatch ==
    /\ data_types = <<>>
    /\ args = <<>>
    /\ next_type = 0
    /\ success_count = 0
    /\ attempted = <<>>
    /\ main_ret = "none"

IdleMulti ==
    /\ analyzers = <<>>
    /\ save_graph = TRUE
    /\ common_period = [found |-> FALSE]
    /\ graph_filename = "none"
    /\ rendered = FALSE

IdleConfig ==
    /\ self_data_type = "none"
    /\ config_overrides = <<>>
    /\ data_config = <<>>
    /\ analysis_config = <<>>
    /\ construct_ret = "none"

Idle ==
    /\ IdleConfig
    /\ IdleRolling
    /\ IdleAnalyzer
    /\ IdleBatch
    /\ IdleMulti
    /\ component_data = NoComponents
    /\ raw_data = <<>>
    /\ ret = "none"
    /\ series = <<>>
    /\ gap_days = 0
    /\ segments = <<>>

InitAgg ==
    /\ pc = "start"
    /\ data \in SeqsUpTo(Entries, MaxSamples)
    /\ aggregation = "mean"
    /\ result = NoResult
    /\ Idle

AggregateDailyData ==
    \E agg \in Aggregations :
        /\ pc = "start"
        /\ aggregation' = agg
        /\ result' = aggregate_daily_data(data, agg)
        /\ pc' = "aggregated"
        /\ UNCHANGED <<data, component_data, raw_data, ret, series, gap_days, segments, rollingVars, analyzerVars, batchVars, multiVars, configVars>>

ReAggregate ==
    \E agg \in Aggregations :
        /\ pc = "aggregated"
        /\ result.exc = "none"
        /\ data' = result.daily
        /\ aggregation' = agg
        /\ result' = aggregate_daily_data(result.daily, agg)
        /\ pc' = "reaggregated"
        /\ UNCHANGED <<component_data, raw_data, ret, series, gap_days, segments, rollingVars, analyzerVars, batchVars, multiVars, configVars>>

NextAgg == AggregateDailyData \/ ReAggregate

SpecAgg == InitAgg /\ [][NextAgg]_vars

(***************************************************************************)
(* Reference notions the aggregation claims are stated with: which input   *)
(* samples carry a number, and the reducers over an unordered index set.   *)
(***************************************************************************)
NumericEntry(e) ==
    /\ "value" \in DOMAIN e
    /\ ("t" \notin DOMAIN e.value \/ e.value.t = "numeric")

NumberOf(e) == IF "t" \notin DOMAIN e.value THEN e.value ELSE FromInt(e.value.text)

NumericIdx == {i \in 1..Len(data) : NumericEntry(data[i])}
NumericIdxOn(d) == {i \in NumericIdx : data[i].date.day = d}
NumericDays == {data[i].date.day : i \in NumericIdx}

RECURSIVE SetSum(_)
SetSum(I) ==
    IF I = {} THEN FromInt(0)
    ELSE LET i == CHOOSE x \in I : TRUE IN RAdd(NumberOf(data[i]), SetSum(I \ {i}))

RefReduce(agg, I) ==
    LET vals == {NumberOf(data[i]) : i \in I} IN
    CASE agg = "sum" -> SetSum(I)
      [] agg = "mean" -> RDivInt(SetSum(I), Cardinality(I))
      [] agg = "max" -> CHOOSE v \in vals : \A w \in vals : ~RLess(v, w)
      [] agg = "min" -> CHOOSE v \in vals : \A w \in vals : ~RLess(w, v)

RECURSIVE CountsFrom(_, _)
CountsFrom(daily, i) ==
    IF i > Len(daily) THEN 0 ELSE daily[i].count + CountsFrom(daily, i + 1)

Returned == pc \in {"aggregated", "reaggregated"} /\ result.exc = "none"

\* The input with the samples at positions a and b exchanged.  Every
\* reordering is a chain of such exchanges, and every input order is an input.
Exchanged(a, b) ==
    [j \in 1..Len(data) |-> IF j = a THEN data[b] ELSE IF j = b THEN data[a] ELSE data[j]]

\* C5: aggregate_daily_data returns daily points with strictly increasing
\* midnight dates, exactly one per calendar day that has a numeric sample,
\* each with count >= 1, and the counts add up to the number of numeric
\* samples of the input.
C5_DailyPointsPerNumericDay ==
    Returned =>
        LET daily == result.daily IN
        /\ \A i \in 1..Len(daily) : daily[i].date.tod = 0 /\ daily[i].count >= 1
        /\ \A i \in 1..(Len(daily) - 1) : daily[i].date.day < daily[i + 1].date.day
        /\ {daily[i].date.day : i \in 1..Len(daily)} = NumericDays
        /\ Len(daily) = Cardinality(NumericDays)
        /\ CountsFrom(daily, 1) = Cardinality(NumericIdx)

C5_Witness ==
    /\ pc = "aggregated"
    /\ result.exc = "none"
    /\ Len(data) = 3
    /\ Cardinality(NumericIdx) = 3
    /\ data[1].date.day > data[2].date.day
    /\ Len(result.daily) = 2
    /\ \E i \in 1..2 : result.daily[i].count = 2

C7_NeverRaises ==
    pc = "aggregated" =>
        /\ result.exc = "none"
        /\ CountsFrom(result.daily, 1) = Cardinality(NumericIdx)
        /\ (data = <<>> => result.daily = <<>>)

DayValues(d) == {NumberOf(data[j]) : j \in NumericIdxOn(d)}

MeanOfDay(i) == aggregate_daily_data(data, "mean").daily[i].value

SumAggregated == pc = "aggregated" /\ result.exc = "none" /\ aggregation = "sum"

\* C8 as stated: the sum aggregate divided by the day's sample count differs
\* from the mean aggregate on every day whose sample values are not all equal.
C8_SumOverCountDiffersFromMean ==
    SumAggregated =>
        \A i \in 1..Len(result.daily) :
            Cardinality(DayValues(result.daily[i].date.day)) > 1 =>
                RDivInt(result.daily[i].value, result.daily[i].count) # MeanOfDay(i)

\* C8 as amended: on every day the sum aggregate divided by the day's sample
\* count equals the mean aggregate, also when the day's values differ.
C8_SumOverCountIsMean ==
    SumAggregated =>
        \A i \in 1..Len(result.daily) :
            RDivInt(result.daily[i].value, result.daily[i].count) = MeanOfDay(i)

C8_Witness ==
    /\ SumAggregated
    /\ Len(result.daily) = 1
    /\ Cardinality(DayValues(result.daily[1].date.day)) = 2
    /\ result.daily[1].count = 2
    /\ result.daily[1].value = FromInt(3)

OneSamplePerDay ==
    /\ \A i \in 1..Len(data) : NumericEntry(data[i])
    /\ \A i \in 1..(Len(data) - 1) : data[i].date.day < data[i + 1].date.day

\* C9 as stated: re-aggregating the output of aggregate_daily_data with any
\* reducer returns the same series: same dates, values and sample counts.
C9_ReaggregationReturnsSameSeries ==
    pc = "reaggregated" => (result.exc = "none" /\ result.daily = data)

\* C9 as amended: re-aggregating a daily series (an output of
\* aggregate_daily_data, or date-ordered samples one per day) with any reducer
\* returns the same dates in the same order at midnight and the same value per
\* date, and every returned sample count is 1.
C9_ReaggregationKeepsDatesAndValues ==
    /\ pc = "reaggregated" =>
          /\ result.exc = "none"
          /\ Len(result.daily) = Len(data)
          /\ \A i \in 1..Len(data) :
                /\ result.daily[i].date = data[i].date
                /\ result.daily[i].value = data[i].value
                /\ result.daily[i].count = 1
    /\ (pc = "aggregated" /\ OneSamplePerDay) =>
          /\ result.exc = "none"
          /\ Len(result.daily) = Len(data)
          /\ \A i \in 1..Len(data) :
                /\ result.daily[i].date = Midnight(data[i].date.day)
                /\ result.daily[i].value = NumberOf(data[i])
                /\ result.daily[i].count = 1

C9_Witness ==
    /\ pc = "reaggregated"
    /\ aggregation = "sum"
    /\ Len(data) = 2
    /\ data[1].count = 2
    /\ data[1].value = Rat(3, 2)
    /\ result.daily[1].value = Rat(3, 2)

(***************************************************************************)
(* split_data_by_gaps: walk consecutive pairs; a gap of more than gap_days *)
(* days closes the current segment, which is kept only if it has more than *)
(* one point.  A series of at most one point is returned as one segment.   *)
(***************************************************************************)
\* Variant: a gap equal to gap_days already splits (>= for >).
RECURSIVE SplitFromInclusive(_, _, _, _, _)
SplitFromInclusive(daily_data, i, segs, current_segment, gap) ==
    IF i > Len(daily_data)
    THEN IF Len(current_segment) > 1 THEN Append(segs, current_segment) ELSE segs
    ELSE IF DaysBetween(daily_data[i].date, daily_data[i - 1].date) >= gap
         THEN SplitFromInclusive(daily_data, i + 1,
                  IF Len(current_segment) > 1 THEN Append(segs, current_segment)
                  ELSE segs,
                  <<daily_data[i]>>, gap)
         ELSE SplitFromInclusive(daily_data, i + 1, segs,
                  Append(current_segment, daily_data[i]), gap)

\* Variant: a segment of one point is returned like any other.
RECURSIVE SplitFromKeepingSingles(_, _, _, _, _)
SplitFromKeepingSingles(daily_data, i, segs, current_segment, gap) ==
    IF i > Len(daily_data)
    THEN Append(segs, current_segment)
    ELSE IF DaysBetween(daily_data[i].date, daily_data[i - 1].date) > gap
         THEN SplitFromKeepingSingles(daily_data, i + 1, Append(segs, current_segment),
                  <<daily_data[i]>>, gap)
         ELSE SplitFromKeepingSingles(daily_data, i + 1, segs,
                  Append(current_segment, daily_data[i]), gap)

RECURSIVE SplitFrom(_, _, _, _, _)
SplitFrom(daily_data, i, segs, current_segment, gap) ==
    IF i > Len(daily_data)
    THEN IF Len(current_segment) > 1 THEN Append(segs, current_segment) ELSE segs
    ELSE IF DaysBetween(daily_data[i].date, daily_data[i - 1].date) > gap
         THEN SplitFrom(daily_data, i + 1,
                  IF Len(current_segment) > 1 THEN Append(segs, current_segment)
                  ELSE segs,
                  <<daily_data[i]>>, gap)
         ELSE SplitFrom(daily_data, i + 1, segs,
                  Append(current_segment, daily_data[i]), gap)

split_data_by_gaps(daily_data, gap) ==
    IF Len(daily_data) <= 1 THEN <<daily_data>>
    ELSE SplitFrom(daily_data, 2, <<>>, <<daily_data[1]>>, gap)

(***************************************************************************)
(* Inputs of the segmentation specification: a daily series (midnight      *)
(* dates, strictly ascending) over the days 1..MaxSeriesDay.               *)
(***************************************************************************)
DailySeriesOn(S) ==
    LET keys == SortedSeq(S) IN
    [i \in 1..Len(keys) |->
        [date |-> Midnight(keys[i]), value |-> FromInt(keys[i]), count |-> 1]]

InitGaps ==
    /\ pc = "start"
    /\ series \in {DailySeriesOn(S) : S \in SUBSET (1..MaxSeriesDay)}
    /\ gap_days \in 0..MaxGapDays
    /\ segments = <<>>
    /\ data = <<>>
    /\ aggregation = "mean"
    /\ result = NoResult
    /\ component_data = NoComponents
    /\ raw_data = <<>>
    /\ ret = "none"
    /\ IdleRolling
    /\ IdleAnalyzer
    /\ IdleBatch
    /\ IdleMulti
    /\ IdleConfig

SplitDataByGaps ==
    /\ pc = "start"
    /\ segments' = split_data_by_gaps(series, gap_days)
    /\ pc' = "split"
    /\ UNCHANGED <<data, aggregation, result, component_data, raw_data, ret,
                   series, gap_days, rollingVars, analyzerVars, batchVars, multiVars, configVars>>

NextGaps == SplitDataByGaps

SpecGaps == InitGaps /\ [][NextGaps]_vars

GapAt(k) == DaysBetween(series[k + 1].date, series[k].date)

\* The series has its one gap of interest between points k and k+1, at least
\* two points on each side, and every other gap within gap_days.
OneGapAt(k) ==
    /\ k >= 2
    /\ k + 2 <= Len(series)
    /\ \A j \in 1..(Len(series) - 1) : j # k => GapAt(j) <= gap_days

WithinGap(segment) ==
    \A k \in 1..(Len(segment) - 1) :
        DaysBetween(segment[k + 1].date, segment[k].date) <= gap_days

\* C11: for every date-ordered series, series of 0 or 1 points included, and
\* every gap_days, each segment returned by split_data_by_gaps has at least 2
\* points and no two consecutive points more than gap_days days apart; when
\* the series has no such run the returned list is empty.
C11_SegmentsHaveTwoPointsWithinGap ==
    pc = "split" =>
        /\ \A s \in 1..Len(segments) :
              Len(segments[s]) >= 2 /\ WithinGap(segments[s])
        /\ (~ \E k \in 1..(Len(series) - 1) : GapAt(k) <= gap_days)
              => segments = <<>>

\* For series of at least 2 points the segments are as C11 says.
C11_HoldsFromTwoPoints ==
    (pc = "split" /\ Len(series) >= 2) => C11_SegmentsHaveTwoPointsWithinGap

\* The segments one after the other.
RECURSIVE Concatenated(_)
Concatenated(segs) ==
    IF segs = <<>> THEN <<>> ELSE Head(segs) \o Concatenated(Tail(segs))

\* Point i of the series is isolated: the gap to each neighbour it has
\* exceeds gap_days.
Isolated(i) ==
    /\ i > 1 => GapAt(i - 1) > gap_days
    /\ i < Len(series) => GapAt(i) > gap_days

\* The series from point i on, without its isolated points.
RECURSIVE WithoutIsolatedFrom(_)
WithoutIsolatedFrom(i) ==
    IF i > Len(series) THEN <<>>
    ELSE (IF Isolated(i) THEN <<>> ELSE <<series[i]>>) \o WithoutIsolatedFrom(i + 1)

WindowValues(daily_data, start_idx, end_idx) ==
    [k \in 1..(end_idx - start_idx) |-> daily_data[start_idx + k].value]

\* Variant: the point is dated by the first record of its window.
RollingPointWindowStartDate(daily_data, i, start_idx, end_idx) ==
    [date |-> daily_data[start_idx + 1].date,
     value |-> Mean(WindowValues(daily_data, start_idx, end_idx))]

RollingPoint(daily_data, i, start_idx, end_idx) ==
    [date |-> daily_data[i + 1].date,
     value |-> Mean(WindowValues(daily_data, start_idx, end_idx))]

StartIdx(i, window) == IF i - window \div 2 > 0 THEN i - window \div 2 ELSE 0

\* Variant: the end of the window leaves out the half window after i.
EndIdxAtCentre(daily_data, i, window) ==
    IF i + 1 < Len(daily_data) THEN i + 1 ELSE Len(daily_data)

EndIdx(daily_data, i, window) ==
    IF i + window \div 2 + 1 < Len(daily_data) THEN i + window \div 2 + 1
    ELSE Len(daily_data)

\* Variant: a window of 2 values is already enough.
RECURSIVE RollingFromMinTwo(_, _, _, _)
RollingFromMinTwo(daily_data, window, i, rolling) ==
    IF i >= Len(daily_data) THEN rolling
    ELSE RollingFromMinTwo(daily_data, window, i + 1,
             IF EndIdx(daily_data, i, window) - StartIdx(i, window) >= 2
             THEN Append(rolling, RollingPoint(daily_data, i, StartIdx(i, window),
                                               EndIdx(daily_data, i, window)))
             ELSE rolling)

RECURSIVE RollingFrom(_, _, _, _)
RollingFrom(daily_data, window, i, rolling) ==
    IF i >= Len(daily_data) THEN rolling
    ELSE RollingFrom(daily_data, window, i + 1,
             IF EndIdx(daily_data, i, window) - StartIdx(i, window) >= 3
             THEN Append(rolling, RollingPoint(daily_data, i, StartIdx(i, window),
                                               EndIdx(daily_data, i, window)))
             ELSE rolling)

calculate_rolling_average(daily_data, window) ==
    IF Len(daily_data) < 3 THEN <<>> ELSE RollingFrom(daily_data, window, 0, <<>>)

(***************************************************************************)
(* Inputs of the rolling average specification: a daily series on a subset *)
(* of the days 1..MaxSeriesDay with a value per day, and a window of       *)
(* 1..MaxWindowDays days.                                                  *)
(***************************************************************************)
DailyValues == {70, 73}

ValuedSeries(S, v) ==
    LET keys == SortedSeq(S) IN
    [i \in 1..Len(keys) |->
        [date |-> Midnight(keys[i]), value |-> FromInt(v[keys[i]]), count |-> 1]]

InitRolling ==
    /\ pc = "start"
    /\ \E S \in SUBSET (1..MaxSeriesDay) :
          \E v \in [S -> DailyValues] : series = ValuedSeries(S, v)
    /\ window_days \in 1..MaxWindowDays
    /\ rolling_data = <<>>
    /\ gap_days = 0
    /\ segments = <<>>
    /\ data = <<>>
    /\ aggregation = "mean"
    /\ result = NoResult
    /\ component_data = NoComponents
    /\ raw_data = <<>>
    /\ ret = "none"
    /\ IdleAnalyzer
    /\ IdleBatch
    /\ IdleMulti
    /\ IdleConfig

CalculateRollingAverage ==
    /\ pc = "start"
    /\ rolling_data' = calculate_rolling_average(series, window_days)
    /\ pc' = "rolled"
    /\ UNCHANGED <<data, aggregation, result, component_data, raw_data, ret,
                   series, gap_days, segments, window_days, analyzerVars, batchVars, multiVars, configVars>>

NextRolling == CalculateRollingAverage

SpecRolling == InitRolling /\ [][NextRolling]_vars

\* The positions of the series inside the centred window of position i
\* (positions counted from 1).
WindowOf(i) ==
    {j \in 1..Len(series) :
        i - window_days \div 2 <= j /\ j <= i + window_days \div 2}

\* The positions whose window holds at least 3 points.
EmittedIdx == {i \in 1..Len(series) : Cardinality(WindowOf(i)) >= 3}

\* The k-th smallest position of EmittedIdx.
EmittedAt(k) ==
    CHOOSE i \in EmittedIdx : Cardinality({j \in EmittedIdx : j <= i}) = k

RECURSIVE SeriesSum(_)
SeriesSum(I) ==
    IF I = {} THEN FromInt(0)
    ELSE LET i == CHOOSE x \in I : TRUE
         IN RAdd(series[i].value, SeriesSum(I \ {i}))

WindowMean(i) == RDivInt(SeriesSum(WindowOf(i)), Cardinality(WindowOf(i)))

\* C12: for every daily series and window_days >= 1, calculate_rolling_average
\* emits a point for index i exactly when the window
\* [i - window_days//2, i + window_days//2], clipped to the series, holds at
\* least 3 points; the point has the date of index i and the arithmetic mean
\* of the window's values; a series of fewer than 3 points gives no point.
C12_PointIffWindowOfThree ==
    pc = "rolled" =>
        /\ Len(rolling_data) = Cardinality(EmittedIdx)
        /\ \A k \in 1..Len(rolling_data) :
              rolling_data[k] = [date |-> series[EmittedAt(k)].date,
                                 value |-> WindowMean(EmittedAt(k))]
        /\ (Len(series) < 3 => rolling_data = <<>>)

\* Four points, window of 3 days: the two inner positions have a full window,
\* the two ends have only 2 points and produce nothing.
C12_Witness ==
    /\ pc = "rolled"
    /\ window_days = 3
    /\ Len(series) = 4
    /\ series[1].value = FromInt(70)
    /\ series[2].value = FromInt(70)
    /\ series[3].value = FromInt(73)
    /\ series[4].value = FromInt(73)
    /\ rolling_data = <<[date |-> series[2].date, value |-> FromInt(71)],
                        [date |-> series[3].date, value |-> FromInt(72)]>>

\* out is a subsequence of in: its elements occur in in, in the same order,
\* each element of in being used at most once.
RECURSIVE IsSubsequence(_, _)
IsSubsequence(out, in) ==
    IF out = <<>> THEN TRUE
    ELSE IF in = <<>> THEN FALSE
    ELSE IF Head(out) = Head(in) THEN IsSubsequence(Tail(out), Tail(in))
    ELSE IsSubsequence(out, Tail(in))

DatesOf(points) == [k \in 1..Len(points) |-> points[k].date]

\* C13: the dates of the output of calculate_rolling_average are an in-order
\* subsequence of the input dates (the output is no longer than the input and
\* each of its dates is an input date), and when every input value is the
\* same constant c every output value is c.
C13_DatesSubsequenceConstantKept ==
    pc = "rolled" =>
        /\ IsSubsequence(DatesOf(rolling_data), DatesOf(series))
        /\ Len(rolling_data) <= Len(series)
        /\ \A k \in 1..Len(rolling_data) :
              \E i \in 1..Len(series) : rolling_data[k].date = series[i].date
        /\ \A c \in DailyValues :
              (\A i \in 1..Len(series) : series[i].value = FromInt(c))
                  => \A k \in 1..Len(rolling_data) :
                         rolling_data[k].value = FromInt(c)

\* A constant series of 5 points on non-adjacent days and a window of 5 days:
\* every position has at least 3 points in its window.
C13_Witness ==
    /\ pc = "rolled"
    /\ window_days = 5
    /\ Len(series) = 5
    /\ series[2].date.day > series[1].date.day + 1
    /\ \A i \in 1..5 : series[i].value = FromInt(73)
    /\ Len(rolling_data) = 5
    /\ \A k \in 1..5 : rolling_data[k].value = FromInt(73)

\* The calendar days between positions i and j of the series.
DaysApart(i, j) == Abs(series[j].date.day - series[i].date.day)

\* C24: every value emitted by calculate_rolling_average for a point with
\* date d is a mean over neighbouring days around d: every daily point that
\* contributes to it has a date within window_days // 2 calendar days of d,
\* for every input series, series with gaps of several days included.
C24_ContributorsWithinHalfWindowDays ==
    pc = "rolled" =>
        \A k \in 1..Len(rolling_data) :
            /\ rolling_data[k].date = series[EmittedAt(k)].date
            /\ \A j \in WindowOf(EmittedAt(k)) :
                  DaysApart(EmittedAt(k), j) <= window_days \div 2

\* The series has a point on every day from its first to its last.
ConsecutiveDays ==
    \A i \in 1..(Len(series) - 1) : DaysApart(i, i + 1) = 1

\* On a series without missing days the contributors are calendar neighbours.
C24_HoldsOnConsecutiveDays ==
    ConsecutiveDays => C24_ContributorsWithinHalfWindowDays

\* Days 1, 2 and 7 with a window of 3 days: the point of day 2 is the mean
\* of the three values, that of day 7, five days away, included.
C24_FarDayAveragedReached ==
    /\ pc = "rolled"
    /\ window_days = 3
    /\ DatesOf(series) = <<Midnight(1), Midnight(2), Midnight(7)>>
    /\ series[1].value = FromInt(70)
    /\ series[2].value = FromInt(70)
    /\ series[3].value = FromInt(73)
    /\ rolling_data = <<[date |-> Midnight(2), value |-> FromInt(71)]>>

\* C26: for a series of n >= 3 daily points calculate_rolling_average returns
\* exactly n points (one per input point, none left out at the edges) when
\* window_days >= 4, the default 7 included; exactly n - 2 points (the first
\* and the last left out) when window_days is 2 or 3; and no point when
\* window_days is 1.
C26_PointCountByWindow ==
    (pc = "rolled" /\ Len(series) >= 3) =>
        /\ window_days >= 4 =>
              DatesOf(rolling_data) = DatesOf(series)
        /\ window_days \in {2, 3} =>
              DatesOf(rolling_data) = SubSeq(DatesOf(series), 2, Len(series) - 1)
        /\ window_days = 1 => rolling_data = <<>>

\* Five points: all five come back with the default window of 7 days.
C26_Witness ==
    /\ pc = "rolled"
    /\ Len(series) = 5
    /\ window_days = 7
    /\ Len(rolling_data) = 5
    /\ rolling_data[1].date = series[1].date
    /\ rolling_data[5].date = series[5].date

\* Five points and a window of 2 days: the three inner points come back.
C26_InnerPointsReached ==
    /\ pc = "rolled"
    /\ Len(series) = 5
    /\ window_days = 2
    /\ DatesOf(rolling_data) = <<series[2].date, series[3].date, series[4].date>>

(***************************************************************************)
(* Derived metrics (GenericHealthAnalyzer.load_calorie_balance_data and    *)
(* load_weight_prediction_data).  component_data maps the name of every    *)
(* component whose file gave at least one row to its loaded rows.          *)
(***************************************************************************)
\* Variant: another energy-per-kilogram figure.
kcal_per_kg_7700 == 7200 + 500

\* dict.get(key, default)
GetOr(dict, key, default) == IF key \in DOMAIN dict THEN dict[key] ELSE default

\* self.data_config.get('prediction_params', {}).get('kcal_per_kg', 7200)
kcal_per_kg == GetOr(GetOr(data_config, "prediction_params", <<>>), "kcal_per_kg", 7200)

MissingComponents(required, loaded) ==
    {comp \in required : comp \notin DOMAIN loaded}

\* {entry['date'].date(): entry['value'] for entry in daily}
DailyDict(daily) ==
    [date_key \in {DateOf(daily[i].date) : i \in 1..Len(daily)} |->
        daily[CHOOSE i \in 1..Len(daily) :
                  /\ DateOf(daily[i].date) = date_key
                  /\ \A j \in (i + 1)..Len(daily) : DateOf(daily[j].date) # date_key].value]

\* Variant: active burn added back instead of subtracted.
BalanceActiveAdded(intake, basal, active) == RAdd(RSub(intake, basal), active)

Balance(intake, basal, active) == RSub(RSub(intake, basal), active)

RequiredBalance == {"intake", "basal", "active"}

\* An exception raised by one of the aggregations, "none" if none raised.
AggregationExc(aggregated) ==
    IF \E comp \in DOMAIN aggregated : aggregated[comp].exc # "none"
    THEN aggregated[CHOOSE comp \in DOMAIN aggregated :
                        aggregated[comp].exc # "none"].exc
    ELSE "none"

\* daily_data[date_key][component_name] = entry['value']
BalanceDailyData(dicts) ==
    [date_key \in UNION {DOMAIN dicts[comp] : comp \in DOMAIN dicts} |->
        [comp \in {c \in DOMAIN dicts : date_key \in DOMAIN dicts[c]} |->
            dicts[comp][date_key]]]

BalanceRecord(date_key, day_data, balance) ==
    [date |-> Midnight(date_key),
     value |-> balance,
     source |-> "calculated",
     raw_data |-> [intake |-> day_data["intake"],
                   basal |-> day_data["basal"],
                   active |-> day_data["active"],
                   balance |-> balance]]

RECURSIVE BalanceRecords(_, _, _)
BalanceRecords(daily_data, keys, i) ==
    IF i > Len(keys) THEN <<>>
    ELSE IF \A comp \in RequiredBalance : comp \in DOMAIN daily_data[keys[i]]
         THEN <<BalanceRecord(keys[i], daily_data[keys[i]],
                    Balance(daily_data[keys[i]]["intake"],
                            daily_data[keys[i]]["basal"],
                            daily_data[keys[i]]["active"]))>>
              \o BalanceRecords(daily_data, keys, i + 1)
         ELSE BalanceRecords(daily_data, keys, i + 1)

BalanceResult(records) ==
    [ret |-> IF records = <<>> THEN "False" ELSE "True", raw_data |-> records]

BalanceFromDailyData(daily_data) ==
    BalanceResult(BalanceRecords(daily_data, SortedSeq(DOMAIN daily_data), 1))

BalanceFromAggregated(aggregated, old_raw_data) ==
    IF AggregationExc(aggregated) # "none"
    THEN [ret |-> AggregationExc(aggregated), raw_data |-> old_raw_data]
    ELSE BalanceFromDailyData(
             BalanceDailyData([comp \in DOMAIN aggregated |->
                                  DailyDict(aggregated[comp].daily)]))

\* Returns the value returned (or the exception raised) and self.raw_data.
load_calorie_balance_data(loaded, old_raw_data) ==
    IF MissingComponents(RequiredBalance, loaded) # {}
    THEN [ret |-> "False", raw_data |-> old_raw_data]
    ELSE BalanceFromAggregated(
             [comp \in DOMAIN loaded |-> aggregate_daily_data(loaded[comp], "sum")],
             old_raw_data)

RequiredPrediction == {"weight", "intake", "basal", "active"}
CalorieComponents == {"intake", "basal", "active"}

\* Variant: the active series left out of the date intersection.
AllDatesWithoutActive(weight_dict, calorie_data) ==
    {date_key \in DOMAIN weight_dict :
        \A comp \in {"intake", "basal"} : date_key \in DOMAIN calorie_data[comp]}

AllDates(weight_dict, calorie_data) ==
    {date_key \in DOMAIN weight_dict :
        \A comp \in CalorieComponents : date_key \in DOMAIN calorie_data[comp]}

PredictionRecord(date_key, actual_weight, theoretical_weight, cumulative_calorie_deficit, daily_balance, daily_intake, daily_basal, daily_active) ==
    [date |-> Midnight(date_key),
     value |-> actual_weight,
     source |-> "prediction_analysis",
     raw_data |-> [actual_weight |-> actual_weight,
                   theoretical_weight |-> theoretical_weight,
                   prediction_error |-> RSub(actual_weight, theoretical_weight),
                   cumulative_deficit |-> cumulative_calorie_deficit,
                   daily_balance |-> daily_balance,
                   daily_intake |-> daily_intake,
                   daily_basal |-> daily_basal,
                   daily_active |-> daily_active]]

TheoreticalWeight(initial_weight, cumulative_calorie_deficit) ==
    RAdd(initial_weight, RDivInt(cumulative_calorie_deficit, kcal_per_kg))

\* One iteration of the loop, given the updated cumulative balance.
PredictionStep(weight_dict, calorie_data, date_key, initial_weight, cumulative_calorie_deficit, daily_balance) ==
    PredictionRecord(date_key, weight_dict[date_key],
        TheoreticalWeight(initial_weight, cumulative_calorie_deficit),
        cumulative_calorie_deficit, daily_balance,
        GetOr(calorie_data["intake"], date_key, FromInt(0)),
        GetOr(calorie_data["basal"], date_key, FromInt(0)),
        GetOr(calorie_data["active"], date_key, FromInt(0)))

DailyBalance(calorie_data, date_key) ==
    Balance(GetOr(calorie_data["intake"], date_key, FromInt(0)),
            GetOr(calorie_data["basal"], date_key, FromInt(0)),
            GetOr(calorie_data["active"], date_key, FromInt(0)))

\* Variant: the first day's balance is not accumulated.
AccumulateAfterFirst(cumulative, daily_balance, i) ==
    IF i = 1 THEN cumulative ELSE RAdd(cumulative, daily_balance)

\* cumulative_calorie_deficit += daily_balance (i is the loop index, from 1)
Accumulate(cumulative, daily_balance, i) == RAdd(cumulative, daily_balance)

RECURSIVE PredictionRecords(_, _, _, _, _, _)
PredictionRecords(weight_dict, calorie_data, sorted_dates, initial_weight, i, cumulative) ==
    IF i > Len(sorted_dates) THEN <<>>
    ELSE <<PredictionStep(weight_dict, calorie_data, sorted_dates[i], initial_weight,
               Accumulate(cumulative, DailyBalance(calorie_data, sorted_dates[i]), i),
               DailyBalance(calorie_data, sorted_dates[i]))>>
         \o PredictionRecords(weight_dict, calorie_data, sorted_dates, initial_weight,
                i + 1,
                Accumulate(cumulative, DailyBalance(calorie_data, sorted_dates[i]), i))

PredictionFromDates(weight_dict, calorie_data, sorted_dates) ==
    [ret |-> "True",
     raw_data |-> PredictionRecords(weight_dict, calorie_data, sorted_dates,
                      weight_dict[sorted_dates[1]], 1, FromInt(0))]

PredictionFromDicts(weight_dict, calorie_data, old_raw_data) ==
    IF AllDates(weight_dict, calorie_data) = {}
    THEN [ret |-> "False", raw_data |-> old_raw_data]
    ELSE PredictionFromDates(weight_dict, calorie_data,
                             SortedSeq(AllDates(weight_dict, calorie_data)))

PredictionFromAggregated(weight_daily, aggregated, old_raw_data) ==
    IF weight_daily.exc # "none"
    THEN [ret |-> weight_daily.exc, raw_data |-> old_raw_data]
    ELSE IF AggregationExc(aggregated) # "none"
    THEN [ret |-> AggregationExc(aggregated), raw_data |-> old_raw_data]
    ELSE PredictionFromDicts(DailyDict(weight_daily.daily),
             [comp \in CalorieComponents |-> DailyDict(aggregated[comp].daily)],
             old_raw_data)

load_weight_prediction_data(loaded, old_raw_data) ==
    IF MissingComponents(RequiredPrediction, loaded) # {}
    THEN [ret |-> "False", raw_data |-> old_raw_data]
    ELSE PredictionFromAggregated(
             aggregate_daily_data(loaded["weight"], "mean"),
             [comp \in CalorieComponents |-> aggregate_daily_data(loaded[comp], "sum")],
             old_raw_data)

(***************************************************************************)
(* Inputs of the derived-metric specification: for every component and     *)
(* every day 1..MaxCommonDay the numeric samples of that day (none, one or *)
(* two), listed latest day first.                                          *)
(***************************************************************************)
Components == {"weight", "intake", "basal", "active"}

CommonDays == 1..MaxCommonDay

SampleOptions(comp) ==
    CASE comp = "weight" -> {<<>>, <<70>>, <<70, 73>>}
      [] comp = "intake" -> {<<>>, <<2000>>, <<1000, 400>>, <<1900>>}
      [] comp = "basal" -> {<<>>, <<1500>>}
      [] comp = "active" -> {<<>>, <<400>>}

RowsOn(d, samples) ==
    [j \in 1..Len(samples) |->
        [date |-> [day |-> d, tod |-> IF j = 1 THEN 0 ELSE 1],
         value |-> [t |-> "numeric", text |-> samples[j]]]]

RECURSIVE RowsFrom(_, _)
RowsFrom(choice, d) ==
    IF d < 1 THEN <<>> ELSE RowsOn(d, choice[d]) \o RowsFrom(choice, d - 1)

\* if data: component_data[component_name] = data
LoadedComponents(files) ==
    [comp \in {c \in DOMAIN files : files[c] # <<>>} |-> files[comp]]

InitDerived ==
    /\ pc = "start"
    /\ \E wt \in [CommonDays -> SampleOptions("weight")],
          it \in [CommonDays -> SampleOptions("intake")],
          bs \in [CommonDays -> SampleOptions("basal")],
          ac \in [CommonDays -> SampleOptions("active")] :
          component_data =
              LoadedComponents([comp \in Components |->
                  RowsFrom(CASE comp = "weight" -> wt
                             [] comp = "intake" -> it
                             [] comp = "basal" -> bs
                             [] comp = "active" -> ac, MaxCommonDay)])
    /\ raw_data = <<>>
    /\ ret = "none"
    /\ data = <<>>
    /\ aggregation = "mean"
    /\ result = NoResult
    /\ series = <<>>
    /\ gap_days = 0
    /\ segments = <<>>
    /\ IdleRolling
    /\ IdleAnalyzer
    /\ IdleBatch
    /\ IdleMulti
    /\ IdleConfig

LoadCalorieBalanceData ==
    /\ pc = "start"
    /\ \E r \in {load_calorie_balance_data(component_data, raw_data)} :
          raw_data' = r.raw_data /\ ret' = r.ret
    /\ pc' = "balance_loaded"
    /\ UNCHANGED <<data, aggregation, result, component_data, series, gap_days, segments, rollingVars, analyzerVars, batchVars, multiVars, configVars>>

LoadWeightPredictionData ==
    /\ pc = "start"
    /\ \E r \in {load_weight_prediction_data(component_data, raw_data)} :
          raw_data' = r.raw_data /\ ret' = r.ret
    /\ pc' = "prediction_loaded"
    /\ UNCHANGED <<data, aggregation, result, component_data, series, gap_days, segments, rollingVars, analyzerVars, batchVars, multiVars, configVars>>

NextDerived == LoadCalorieBalanceData \/ LoadWeightPredictionData

SpecDerived == InitDerived /\ [][NextDerived]_vars

(***************************************************************************)
(* Reference notions the derived-metric claims are stated with, read off   *)
(* the loaded rows directly.                                               *)
(***************************************************************************)
RowsOf(comp) == IF comp \in DOMAIN component_data THEN component_data[comp] ELSE <<>>

RowIdxOn(comp, d) ==
    {i \in 1..Len(RowsOf(comp)) :
        NumericEntry(RowsOf(comp)[i]) /\ RowsOf(comp)[i].date.day = d}

RECURSIVE RowSum(_, _)
RowSum(comp, I) ==
    IF I = {} THEN FromInt(0)
    ELSE LET i == CHOOSE x \in I : TRUE
         IN  RAdd(NumberOf(RowsOf(comp)[i]), RowSum(comp, I \ {i}))

DaySum(comp, d) == RowSum(comp, RowIdxOn(comp, d))
DayMean(comp, d) == RDivInt(DaySum(comp, d), Cardinality(RowIdxOn(comp, d)))
DayBalance(d) == RSub(RSub(DaySum("intake", d), DaySum("basal", d)), DaySum("active", d))

DatesCommonTo(comps) == {d \in CommonDays : \A comp \in comps : RowIdxOn(comp, d) # {}}

RecordDays == {raw_data[i].date.day : i \in 1..Len(raw_data)}

AscendingMidnights ==
    /\ \A i \in 1..Len(raw_data) : raw_data[i].date.tod = 0
    /\ \A i \in 1..(Len(raw_data) - 1) : raw_data[i].date.day < raw_data[i + 1].date.day

RECURSIVE BalanceUpTo(_)
BalanceUpTo(i) ==
    IF i = 0 THEN FromInt(0)
    ELSE RAdd(BalanceUpTo(i - 1), DayBalance(raw_data[i].date.day))

PredictionLoaded == pc = "prediction_loaded" /\ ret = "True"

\* C1 as stated: the record of the first common date has theoreticalWeight
\* equal to actualWeight and cumulativeDeficit 0, whatever that day's balance.
C1_FirstDayTheoreticalIsActual ==
    PredictionLoaded =>
        /\ raw_data[1].raw_data.theoretical_weight = raw_data[1].raw_data.actual_weight
        /\ raw_data[1].raw_data.cumulative_deficit = FromInt(0)

\* C1 as amended: on the first common date cumulativeDeficit is that day's
\* own calorie balance and theoreticalWeight is actualWeight plus that balance
\* over 7200; they are 0 and actualWeight exactly when that balance is 0.
C1_FirstDayCarriesItsBalance ==
    PredictionLoaded =>
        LET first == raw_data[1].raw_data
            d == raw_data[1].date.day
        IN  /\ d \in DatesCommonTo(Components)
            /\ \A e \in DatesCommonTo(Components) : d <= e
            /\ first.cumulative_deficit = DayBalance(d)
            /\ first.theoretical_weight =
                   RAdd(first.actual_weight, RDivInt(DayBalance(d), 7200))
            /\ (first.theoretical_weight = first.actual_weight
                    <=> DayBalance(d) = FromInt(0))
            /\ (first.cumulative_deficit = FromInt(0) <=> DayBalance(d) = FromInt(0))

C1_Witness ==
    /\ PredictionLoaded
    /\ Len(raw_data) = 2
    /\ raw_data[1].raw_data.daily_balance = FromInt(100)
    /\ raw_data[1].raw_data.cumulative_deficit = FromInt(100)
    /\ raw_data[1].raw_data.theoretical_weight # raw_data[1].raw_data.actual_weight

\* C2: on the i-th common date cumulativeDeficit is the sum of the daily
\* balances intake - basal - active of the common dates 1..i, first included,
\* theoreticalWeight is initialWeight + cumulativeDeficit / 7200 and
\* predictionError is actualWeight - theoreticalWeight.
C2_CumulativeDeficitAndTheoreticalWeight ==
    PredictionLoaded =>
        \A i \in 1..Len(raw_data) :
            LET r == raw_data[i].raw_data IN
            /\ r.daily_balance = DayBalance(raw_data[i].date.day)
            /\ r.daily_balance = RSub(RSub(r.daily_intake, r.daily_basal), r.daily_active)
            /\ r.cumulative_deficit = BalanceUpTo(i)
            /\ r.theoretical_weight =
                   RAdd(raw_data[1].raw_data.actual_weight,
                        RDivInt(r.cumulative_deficit, 7200))
            /\ r.prediction_error = RSub(r.actual_weight, r.theoretical_weight)

C2_Witness ==
    /\ PredictionLoaded
    /\ Len(raw_data) = 2
    /\ raw_data[1].raw_data.daily_balance = FromInt(-500)
    /\ raw_data[2].raw_data.daily_balance = FromInt(-500)
    /\ raw_data[2].raw_data.theoretical_weight =
           RAdd(raw_data[1].raw_data.actual_weight, Rat(-1000, 7200))

\* C3: load_weight_prediction_data gives exactly one record per date present
\* in all four daily series and none for another date, in strictly ascending
\* date order, with the daily mean weight and the daily intake, basal and
\* active sums of that date; initialWeight is the daily mean weight of the
\* earliest such date.
C3_OneRecordPerCommonDate ==
    pc = "prediction_loaded" =>
        /\ Len(raw_data) = Cardinality(DatesCommonTo(Components))
        /\ RecordDays = DatesCommonTo(Components)
        /\ AscendingMidnights
        /\ \A i \in 1..Len(raw_data) :
              LET r == raw_data[i].raw_data
                  d == raw_data[i].date.day
                  first == CHOOSE e \in DatesCommonTo(Components) :
                               \A f \in DatesCommonTo(Components) : e <= f
              IN  /\ raw_data[i].value = DayMean("weight", d)
                  /\ r.actual_weight = DayMean("weight", d)
                  /\ r.daily_intake = DaySum("intake", d)
                  /\ r.daily_basal = DaySum("basal", d)
                  /\ r.daily_active = DaySum("active", d)
                  /\ RSub(r.theoretical_weight, RDivInt(r.cumulative_deficit, 7200))
                         = DayMean("weight", first)

C3_Witness ==
    /\ pc = "prediction_loaded"
    /\ ret = "True"
    /\ Len(raw_data) = 1
    /\ raw_data[1].date = Midnight(2)
    /\ raw_data[1].value = Rat(143, 2)
    /\ RowIdxOn("weight", 1) # {}
    /\ RowIdxOn("intake", 1) # {}
    /\ RowIdxOn("basal", 1) # {}
    /\ RowIdxOn("active", 1) = {}

\* C4: load_calorie_balance_data gives, in ascending date order, one record
\* for a date if and only if the date has a daily sum in each of intake,
\* basal and active, with value intake - basal - active.
C4_BalancePerCommonDate ==
    pc = "balance_loaded" =>
        /\ Len(raw_data) = Cardinality(DatesCommonTo(RequiredBalance))
        /\ RecordDays = DatesCommonTo(RequiredBalance)
        /\ AscendingMidnights
        /\ \A i \in 1..Len(raw_data) :
              /\ raw_data[i].value = DayBalance(raw_data[i].date.day)
              /\ raw_data[i].raw_data.balance = raw_data[i].value

C4_Witness ==
    /\ pc = "balance_loaded"
    /\ ret = "True"
    /\ Len(raw_data) = 1
    /\ raw_data[1].date = Midnight(2)
    /\ raw_data[1].raw_data.intake = FromInt(2000)
    /\ raw_data[1].raw_data.basal = FromInt(1500)
    /\ raw_data[1].raw_data.active = FromInt(400)
    /\ raw_data[1].value = FromInt(100)
    /\ RowIdxOn("intake", 1) # {}
    /\ RowIdxOn("basal", 1) = {}

(***************************************************************************)
(* Inputs with unreadable rows: for every component and every day          *)
(* 1..MaxCommonDay the values of that day's rows (none, one number, one    *)
(* non-numeric text, one None from a short CSV row).                       *)
(***************************************************************************)
NumericValue(k) == [t |-> "numeric", text |-> k]
NonNumericValue == [t |-> "nonnumeric"]
NoneValue == [t |-> "None"]

ValueOptions(comp) ==
    CASE comp = "weight" -> {<<>>, <<NumericValue(70)>>}
      [] comp = "intake" -> {<<>>, <<NumericValue(2000)>>, <<NonNumericValue>>,
                             <<NoneValue>>}
      [] comp = "basal" -> {<<>>, <<NumericValue(1500)>>}
      [] comp = "active" -> {<<>>, <<NumericValue(400)>>, <<NoneValue>>}

ValueRowsOn(d, values) ==
    [j \in 1..Len(values) |->
        [date |-> [day |-> d, tod |-> IF j = 1 THEN 0 ELSE 1], value |-> values[j]]]

RECURSIVE ValueRowsFrom(_, _)
ValueRowsFrom(choice, d) ==
    IF d < 1 THEN <<>> ELSE ValueRowsOn(d, choice[d]) \o ValueRowsFrom(choice, d - 1)

InitDerivedRows ==
    /\ pc = "start"
    /\ \E wt \in [CommonDays -> ValueOptions("weight")],
          it \in [CommonDays -> ValueOptions("intake")],
          bs \in [CommonDays -> ValueOptions("basal")],
          ac \in [CommonDays -> ValueOptions("active")] :
          component_data =
              LoadedComponents([comp \in Components |->
                  ValueRowsFrom(CASE comp = "weight" -> wt
                                  [] comp = "intake" -> it
                                  [] comp = "basal" -> bs
                                  [] comp = "active" -> ac, MaxCommonDay)])
    /\ raw_data = <<>>
    /\ ret = "none"
    /\ data = <<>>
    /\ aggregation = "mean"
    /\ result = NoResult
    /\ series = <<>>
    /\ gap_days = 0
    /\ segments = <<>>
    /\ IdleRolling
    /\ IdleAnalyzer
    /\ IdleBatch
    /\ IdleMulti
    /\ IdleConfig

SpecDerivedRows == InitDerivedRows /\ [][NextDerived]_vars

\* A required component has no loaded rows, or no date has a numeric value in
\* every required component.
NothingToDerive(required) ==
    \/ \E comp \in required : RowsOf(comp) = <<>>
    \/ DatesCommonTo(required) = {}

LoadOutcome(required) ==
    /\ NothingToDerive(required) => ret = "False"
    /\ ret = "True" => Len(raw_data) >= 1

\* C14: load_calorie_balance_data and load_weight_prediction_data return
\* False, and do not raise, whenever a required component has no loaded rows
\* or no date is common to all required components (a component whose rows
\* have no numeric value included); they return True only with at least one
\* derived record.
C14_FalseWithoutRaising ==
    /\ pc = "balance_loaded" => LoadOutcome(RequiredBalance)
    /\ pc = "prediction_loaded" => LoadOutcome(RequiredPrediction)

\* The same without rows whose value is None.
NoNoneValue ==
    \A comp \in DOMAIN component_data :
        \A i \in 1..Len(component_data[comp]) :
            component_data[comp][i].value # NoneValue

C14_HoldsWithoutNoneValues ==
    NoNoneValue => C14_FalseWithoutRaising

(***************************************************************************)
(* calculate_basic_statistics (utils.py) over a list of values.            *)
(* statistics.stdev is the square root of the variance with the n - 1      *)
(* denominator; a square root is kept exactly as Sqrt(radicand).           *)
(***************************************************************************)
RMul(x, y) == Rat(x.n * y.n, x.d * y.d)

Sqrt(x) == [radicand |-> x]

\* sorted(values), as statistics.median sorts its data.
RECURSIVE Insert(_, _)
Insert(sorted, x) ==
    IF sorted = <<>> THEN <<x>>
    ELSE IF RLess(x, Head(sorted)) THEN <<x>> \o sorted
    ELSE <<Head(sorted)>> \o Insert(Tail(sorted), x)

RECURSIVE SortedValuesFrom(_, _, _)
SortedValuesFrom(values, i, sorted) ==
    IF i > Len(values) THEN sorted
    ELSE SortedValuesFrom(values, i + 1, Insert(sorted, values[i]))

SortedValues(values) == SortedValuesFrom(values, 1, <<>>)

MedianOfSorted(sorted) ==
    IF Len(sorted) % 2 = 1 THEN sorted[(Len(sorted) + 1) \div 2]
    ELSE RDivInt(RAdd(sorted[Len(sorted) \div 2], sorted[Len(sorted) \div 2 + 1]), 2)

Median(values) == MedianOfSorted(SortedValues(values))

RECURSIVE SquaresFrom(_, _, _, _)
SquaresFrom(values, mean, i, acc) ==
    IF i > Len(values) THEN acc
    ELSE SquaresFrom(values, mean, i + 1,
             RAdd(acc, RMul(RSub(values[i], mean), RSub(values[i], mean))))

\* Variant: the population variance (denominator n).
VarianceOverN(values) ==
    RDivInt(SquaresFrom(values, Mean(values), 1, FromInt(0)), Len(values))

\* statistics.variance: sum of squared deviations over n - 1.
Variance(values) ==
    RDivInt(SquaresFrom(values, Mean(values), 1, FromInt(0)), Len(values) - 1)

Stdev(values) == Sqrt(Variance(values))

NoStatistics == <<>>

calculate_basic_statistics(values) ==
    IF values = <<>> THEN NoStatistics
    ELSE [count |-> Len(values),
          mean |-> Mean(values),
          median |-> Median(values),
          min |-> Min(values),
          max |-> Max(values),
          std |-> IF Len(values) > 1 THEN Stdev(values) ELSE Sqrt(FromInt(0)),
          range |-> RSub(Max(values), Min(values))]

(***************************************************************************)
(* GenericHealthAnalyzer: load_data, process_data, analyze_statistics,     *)
(* create_visualization and run_analysis.  A method's result is the value  *)
(* returned, or the name of the exception raised, with the fields it       *)
(* leaves behind.                                                          *)
(***************************************************************************)
rolling_window == 7
default_min_data_points == 5

\* load_data: the two derived kinds have their own loaders; otherwise the
\* rows of the metric's file are the raw data, and no row is a failure.
load_data(special, rows, loaded, old_raw_data) ==
    IF special = "calorie_balance" THEN load_calorie_balance_data(loaded, old_raw_data)
    ELSE IF special = "weight_prediction"
    THEN load_weight_prediction_data(loaded, old_raw_data)
    ELSE [ret |-> IF rows = <<>> THEN "False" ELSE "True", raw_data |-> rows]

\* raw_data converted to daily points (count 1).
DailyFromRaw(raw) ==
    [i \in 1..Len(raw) |-> [date |-> raw[i].date, value |-> raw[i].value, count |-> 1]]

\* The threshold check and the rolling average that end process_data.
ThresholdThenRolling(daily, min_points, window, old_rolling) ==
    IF Len(daily) < min_points
    THEN [ret |-> "False", daily_data |-> daily, rolling_data |-> old_rolling]
    ELSE [ret |-> "True", daily_data |-> daily,
          rolling_data |-> calculate_rolling_average(daily, window)]

AggregatedThenThreshold(aggregated, min_points, window, old_daily, old_rolling) ==
    IF aggregated.exc # "none"
    THEN [ret |-> aggregated.exc, daily_data |-> old_daily, rolling_data |-> old_rolling]
    ELSE ThresholdThenRolling(aggregated.daily, min_points, window, old_rolling)

process_data(special, raw, agg, min_points, window, old_daily, old_rolling) ==
    IF raw = <<>>
    THEN [ret |-> "False", daily_data |-> old_daily, rolling_data |-> old_rolling]
    ELSE IF special = "calorie_balance"
    THEN ThresholdThenRolling(DailyFromRaw(raw), min_points, window, old_rolling)
    ELSE IF special = "weight_prediction"
    THEN [ret |-> "True", daily_data |-> DailyFromRaw(raw),
          rolling_data |-> calculate_rolling_average(DailyFromRaw(raw), window)]
    ELSE AggregatedThenThreshold(aggregate_daily_data(raw, agg), min_points, window,
                                 old_daily, old_rolling)

ValuesOf(points) == [i \in 1..Len(points) |-> points[i].value]

\* Variant: the last day is not counted.
TotalDaysWithoutLast(daily) == DaysBetween(daily[Len(daily)].date, daily[1].date)

\* (dates[-1] - dates[0]).days + 1
TotalDays(daily) == DaysBetween(daily[Len(daily)].date, daily[1].date) + 1

RollingStats(rolling) ==
    [start_value |-> rolling[1].value,
     end_value |-> rolling[Len(rolling)].value,
     change |-> RSub(rolling[Len(rolling)].value, rolling[1].value)]

PeriodStatistics(daily) ==
    [start_date |-> DateOf(daily[1].date),
     end_date |-> DateOf(daily[Len(daily)].date),
     total_days |-> TotalDays(daily),
     data_days |-> Len(daily),
     coverage_rate |-> RMul(Rat(Len(daily), TotalDays(daily)), FromInt(100)),
     total_change |-> RSub(daily[Len(daily)].value, daily[1].value)]

\* dict.update: the entries of b added to (or replacing) those of a.
Updated(a, b) ==
    [key \in DOMAIN a \cup DOMAIN b |-> IF key \in DOMAIN b THEN b[key] ELSE a[key]]

\* The unit and decimal_places entries, copied from the configuration, are
\* left out.
analyze_statistics(daily, rolling, old_statistics) ==
    IF daily = <<>> THEN old_statistics
    ELSE IF rolling = <<>>
    THEN Updated(calculate_basic_statistics(ValuesOf(daily)), PeriodStatistics(daily))
    ELSE Updated(Updated(calculate_basic_statistics(ValuesOf(daily)),
                         PeriodStatistics(daily)),
                 [rolling_stats |-> RollingStats(rolling)])

\* create_visualization: None without daily data, else the chart is drawn
\* and its file name returned.
create_visualization(daily) == IF daily = <<>> THEN "None" ELSE "graph_filename"

(***************************************************************************)
(* run_analysis, one method call per step.  Inputs: the kind of metric,    *)
(* min_data_points, and the files: for a directly loaded metric the rows   *)
(* of its file on the days 1..MaxDataDays; for a derived metric the rows   *)
(* of each component on the days 1..k; in both cases possibly one short    *)
(* row more (value None).                                                  *)
(***************************************************************************)
SpecialProcessings == {"none", "calorie_balance", "weight_prediction"}

MinDataPointsOptions == {1, default_min_data_points}

DayRowOptions == {<<>>, <<70>>, <<71>>, <<72>>, <<70, 72>>}

ShortRow(short) ==
    IF short THEN <<[date |-> [day |-> 1, tod |-> 1], value |-> NoneValue]>> ELSE <<>>

MetricFiles == {RowsFrom(choice, MaxDataDays) \o ShortRow(short) :
                   choice \in [1..MaxDataDays -> DayRowOptions], short \in BOOLEAN}

ComponentValue(comp) ==
    CASE comp = "weight" -> 70
      [] comp = "intake" -> 2000
      [] comp = "basal" -> 1500
      [] comp = "active" -> 400

ComponentRows(comp, last) ==
    RowsFrom([d \in 1..MaxDataDays |->
                 IF d <= last THEN <<ComponentValue(comp)>> ELSE <<>>], MaxDataDays)

ComponentFiles(comps) ==
    {LoadedComponents([comp \in comps |->
         ComponentRows(comp, last[comp])
             \o (IF comp = "intake" THEN ShortRow(short) ELSE <<>>)]) :
        last \in [comps -> 0..MaxDataDays], short \in BOOLEAN}

InitAnalyzer ==
    /\ pc = "start"
    /\ special_processing \in SpecialProcessings
    /\ min_data_points \in MinDataPointsOptions
    /\ window_days = rolling_window
    /\ aggregation = "mean"
    /\ IF special_processing = "none"
       THEN data \in MetricFiles /\ component_data = NoComponents
       ELSE /\ data = <<>>
            /\ component_data \in
                   ComponentFiles(IF special_processing = "calorie_balance"
                                  THEN RequiredBalance ELSE RequiredPrediction)
    /\ raw_data = <<>>
    /\ self_daily_data = <<>>
    /\ rolling_data = <<>>
    /\ statistics = NoStatistics
    /\ calls = <<>>
    /\ run_ret = "none"
    /\ result = NoResult
    /\ ret = "none"
    /\ series = <<>>
    /\ gap_days = 0
    /\ segments = <<>>
    /\ IdleBatch
    /\ IdleMulti
    /\ IdleConfig

Called(step, value) == Append(calls, [step |-> step, ret |-> value])

\* Variant: run_analysis goes on whatever the step returned.
AfterStepAlways(value, next) == next

\* Where run_analysis is after a step that returned value: at the next step
\* if it returned True, else out of the method.
AfterStep(value, next) == IF value = "True" THEN next ELSE "returned"

\* What run_analysis returns (or raises) when a step did not return True.
Outcome(value) == IF value = "True" THEN run_ret ELSE value

LoadData ==
    /\ pc = "start"
    /\ \E r \in {load_data(special_processing, data, component_data, raw_data)} :
          /\ raw_data' = r.raw_data
          /\ calls' = Called("load_data", r.ret)
          /\ pc' = AfterStep(r.ret, "loaded")
          /\ run_ret' = Outcome(r.ret)
    /\ UNCHANGED <<data, aggregation, result, component_data, ret, series, gap_days,
                   segments, rollingVars, special_processing, min_data_points,
                   self_daily_data, statistics, batchVars, multiVars, configVars>>

ProcessData ==
    /\ pc = "loaded"
    /\ \E r \in {process_data(special_processing, raw_data, aggregation,
                             min_data_points, window_days, self_daily_data,
                             rolling_data)} :
          /\ self_daily_data' = r.daily_data
          /\ rolling_data' = r.rolling_data
          /\ calls' = Called("process_data", r.ret)
          /\ pc' = AfterStep(r.ret, "processed")
          /\ run_ret' = Outcome(r.ret)
    /\ UNCHANGED <<data, aggregation, result, component_data, raw_data, ret, series,
                   gap_days, segments, window_days, special_processing,
                   min_data_points, statistics, batchVars, multiVars, configVars>>

AnalyzeStatistics ==
    /\ pc = "processed"
    /\ statistics' = analyze_statistics(self_daily_data, rolling_data, statistics)
    /\ calls' = Called("analyze_statistics", "None")
    /\ pc' = "summarized"
    /\ UNCHANGED <<data, aggregation, result, component_data, raw_data, ret, series,
                   gap_days, segments, rollingVars, special_processing,
                   min_data_points, self_daily_data, run_ret, batchVars, multiVars, configVars>>

CreateVisualization ==
    /\ pc = "summarized"
    /\ calls' = Called("create_visualization", create_visualization(self_daily_data))
    /\ run_ret' = "True"
    /\ pc' = "returned"
    /\ UNCHANGED <<data, aggregation, result, component_data, raw_data, ret, series,
                   gap_days, segments, rollingVars, special_processing,
                   min_data_points, self_daily_data, statistics, batchVars, multiVars, configVars>>

NextAnalyzer == LoadData \/ ProcessData \/ AnalyzeStatistics \/ CreateVisualization

SpecAnalyzer == InitAnalyzer /\ [][NextAnalyzer]_vars

StepOrder == <<"load_data", "process_data", "analyze_statistics", "create_visualization">>

\* The step at position k of the run has been called and returned value.
StepReturned(k, value) == Len(calls) >= k /\ calls[k].ret = value

\* C15: run_analysis calls load_data, process_data, analyze_statistics and
\* create_visualization only in this order and each at most once; a step is
\* called only if every earlier step succeeded: after load_data returned
\* False nothing else is called, after process_data returned False neither
\* analyze_statistics nor create_visualization is called, and run_analysis
\* then returns False with statistics still empty.
C15_StepsInOrderGatedOnSuccess ==
    /\ Len(calls) <= Len(StepOrder)
    /\ \A k \in 1..Len(calls) : calls[k].step = StepOrder[k]
    /\ Len(calls) >= 2 => calls[1].ret = "True"
    /\ Len(calls) >= 3 => calls[2].ret = "True"
    /\ (StepReturned(1, "False") \/ StepReturned(2, "False"))
          => /\ calls[Len(calls)].ret = "False"
             /\ pc = "returned"
             /\ run_ret = "False"
             /\ DOMAIN statistics = {}

\* process_data found 4 daily points where 5 are required: the run ends
\* there, returning False, without statistics.
C15_Witness ==
    /\ pc = "returned"
    /\ special_processing = "none"
    /\ min_data_points = default_min_data_points
    /\ Len(self_daily_data) = 4
    /\ Len(calls) = 2
    /\ calls[1] = [step |-> "load_data", ret |-> "True"]
    /\ calls[2] = [step |-> "process_data", ret |-> "False"]
    /\ run_ret = "False"
    /\ DOMAIN statistics = {}

\* C16: for every kind of metric (directly loaded, calorie balance, weight
\* prediction), when the daily series has fewer than min_data_points points
\* process_data returns False and neither analyze_statistics nor
\* create_visualization is reached.
C16_BelowThresholdReturnsFalse ==
    (Len(calls) >= 2 /\ Len(self_daily_data) < min_data_points)
        => /\ calls[2].ret = "False"
           /\ Len(calls) = 2
           /\ DOMAIN statistics = {}

\* The kinds other than weight prediction, with no None value in the files.
C16_HoldsForOtherKinds ==
    (/\ special_processing # "weight_prediction"
     /\ NoNoneValue
     /\ \A i \in 1..Len(data) : data[i].value # NoneValue)
        => C16_BelowThresholdReturnsFalse

\* analyze_statistics has run on a non-empty daily series.
Summarized == Len(calls) >= 3 /\ self_daily_data # <<>>

SeventyToSeventyTwo == <<FromInt(70), FromInt(71), FromInt(72)>>

\* x is within 0.00005 of 0.8165, for x the square root of the rational
\* radicand: 0.81645^2 <= radicand <= 0.81655^2.
IsAbout08165(x) ==
    /\ 6665906 * x.radicand.d <= 10000000 * x.radicand.n
    /\ 10000000 * x.radicand.n <= 6667540 * x.radicand.d

BasicFigures ==
    /\ statistics.count = 3
    /\ statistics.mean = FromInt(71)
    /\ statistics.median = FromInt(71)
    /\ statistics.range = FromInt(2)
    /\ statistics.total_change = FromInt(2)

\* C19 as stated: for the daily values [70.0, 71.0, 72.0] the summary has
\* count 3, mean 71, median 71, range 2, total change 2 and a standard
\* deviation (n - 1 denominator) of about 0.8165.
C19_StdAbout08165 ==
    (Summarized /\ ValuesOf(self_daily_data) = SeventyToSeventyTwo)
        => BasicFigures /\ IsAbout08165(statistics.std)

\* C19 as amended: for the daily values [70.0, 71.0, 72.0] the summary has
\* count 3, mean 71, median 71, range 2, total change 2 and the standard
\* deviation with the n - 1 denominator, which is 1 (the square root of
\* (1 + 0 + 1) / 2).
C19_StdIsOne ==
    (Summarized /\ ValuesOf(self_daily_data) = SeventyToSeventyTwo)
        => BasicFigures /\ statistics.std = Sqrt(FromInt(1))

C19_Witness ==
    /\ pc = "returned"
    /\ special_processing = "none"
    /\ run_ret = "True"
    /\ ValuesOf(self_daily_data) = SeventyToSeventyTwo
    /\ statistics.std = Sqrt(FromInt(1))
    /\ statistics.min = FromInt(70)
    /\ statistics.max = FromInt(72)

\* C20: for every non-empty daily series produced by the aggregator,
\* analyze_statistics gives data_days <= total_days, total_days being the
\* days from the first to the last date plus 1, so that coverage_rate is
\* greater than 0 and at most 100.
C20_CoverageWithinHundred ==
    (Summarized /\ special_processing = "none")
        => /\ statistics.total_days =
                  self_daily_data[Len(self_daily_data)].date.day
                      - self_daily_data[1].date.day + 1
           /\ statistics.data_days = Len(self_daily_data)
           /\ statistics.data_days <= statistics.total_days
           /\ statistics.coverage_rate.n > 0
           /\ ~ RLess(FromInt(100), statistics.coverage_rate)

\* Three recorded days out of the five from the first to the last: 60 %.
C20_Witness ==
    /\ Summarized
    /\ special_processing = "none"
    /\ statistics.data_days = 3
    /\ statistics.total_days = 5
    /\ statistics.coverage_rate = FromInt(60)

(***************************************************************************)
(* main of analyze_health_data.py on a comma-separated list of data types. *)
(* A data type is given by its name and by the rows of its file.  The      *)
(* derived kinds have no entry in HEALTH_DATA_CONFIGS, so every valid type *)
(* is a directly loaded metric.                                            *)
(***************************************************************************)
\* run_analysis as a whole: what it returns, or the exception it raises.
RunAfterProcess(processed) == IF processed.ret = "True" THEN "True" ELSE processed.ret

RunAfterLoad(loaded, agg, min_points, window) ==
    IF loaded.ret # "True" THEN loaded.ret
    ELSE RunAfterProcess(process_data("none", loaded.raw_data, agg, min_points,
                                      window, <<>>, <<>>))

run_analysis(rows, agg, min_points, window) ==
    RunAfterLoad(load_data("none", rows, NoComponents, <<>>), agg, min_points, window)

IsException(value) == value \notin {"True", "False"}

\* validate_data_type: the name is a key of HEALTH_DATA_CONFIGS.
ConfiguredTypes == {"body_weight", "calorie_intake"}

validate_data_type(name) == name \in ConfiguredTypes

\* build_config_overrides: date.today() - timedelta(days=args.days) raises
\* OverflowError when it falls before date.min.
build_config_overrides(arguments) ==
    IF arguments.days = "beyond_calendar" THEN "OverflowError" ELSE "none"

\* The body of the try block: without graph the methods are called one after
\* the other and True is returned whatever they return; else run_analysis.
AnalysisOf(data_type, arguments) ==
    IF arguments.no_graph
    THEN IF IsException(run_analysis(data_type.rows, "mean", default_min_data_points,
                                     rolling_window))
         THEN run_analysis(data_type.rows, "mean", default_min_data_points,
                           rolling_window)
         ELSE "True"
    ELSE run_analysis(data_type.rows, "mean", default_min_data_points, rolling_window)

\* except Exception: return False covers the try block only.
analyze_single_data_type(data_type, arguments) ==
    IF ~ validate_data_type(data_type.name) THEN "False"
    ELSE IF build_config_overrides(arguments) # "none"
    THEN build_config_overrides(arguments)
    ELSE IF IsException(AnalysisOf(data_type, arguments)) THEN "False"
    ELSE AnalysisOf(data_type, arguments)

\* The rows of a metric's file: none, 2 days, every day, every day and a
\* short row.
FileOptions ==
    {<<>>, ComponentRows("weight", 2), ComponentRows("weight", MaxDataDays),
     ComponentRows("weight", MaxDataDays) \o ShortRow(TRUE)}

DataTypes ==
    [name : {"body_weight"}, rows : FileOptions]
    \cup [name : {"calorie_intake"}, rows : {<<>>, ComponentRows("intake", MaxDataDays)}]
    \cup [name : {"nonsense"}, rows : {<<>>}]

DaysOptions == {"None", "within_calendar", "beyond_calendar"}

Arguments ==
    [days : DaysOptions, no_graph : BOOLEAN, dual_axis_only : BOOLEAN,
     no_auto_correlation : BOOLEAN]

InitBatch ==
    /\ pc = "start"
    /\ data_types \in UNION {[1..n -> DataTypes] : n \in 1..MaxTypes}
    /\ args \in Arguments
    /\ next_type = 0
    /\ success_count = 0
    /\ attempted = <<>>
    /\ main_ret = "none"
    /\ data = <<>>
    /\ aggregation = "mean"
    /\ result = NoResult
    /\ component_data = NoComponents
    /\ raw_data = <<>>
    /\ ret = "none"
    /\ series = <<>>
    /\ gap_days = 0
    /\ segments = <<>>
    /\ IdleRolling
    /\ IdleAnalyzer
    /\ IdleMulti
    /\ IdleConfig

DualAxisOnlyMode == args.dual_axis_only /\ Len(data_types) >= 2

\* for data_type in data_types: if validate_data_type(data_type): ...
ValidateDataType ==
    /\ pc = "start"
    /\ DualAxisOnlyMode
    /\ next_type < Len(data_types)
    /\ next_type' = next_type + 1
    /\ attempted' = Append(attempted, data_types[next_type + 1].name)
    /\ success_count' =
           success_count
               + (IF validate_data_type(data_types[next_type + 1].name) THEN 1 ELSE 0)
    /\ UNCHANGED <<pc, data, aggregation, result, component_data, raw_data, ret,
                   series, gap_days, segments, rollingVars, analyzerVars,
                   data_types, args, main_ret, multiVars, configVars>>

\* One turn of the loop of the normal mode; an exception that leaves
\* analyze_single_data_type leaves main too.
AnalyzeSingleDataType ==
    /\ pc = "start"
    /\ ~ DualAxisOnlyMode
    /\ next_type < Len(data_types)
    /\ next_type' = next_type + 1
    /\ attempted' = Append(attempted, data_types[next_type + 1].name)
    /\ \E r \in {analyze_single_data_type(data_types[next_type + 1], args)} :
          /\ success_count' = success_count + (IF r = "True" THEN 1 ELSE 0)
          /\ pc' = IF IsException(r) THEN "exited" ELSE pc
          /\ main_ret' = IF IsException(r) THEN r ELSE main_ret
    /\ UNCHANGED <<data, aggregation, result, component_data, raw_data, ret,
                   series, gap_days, segments, rollingVars, analyzerVars,
                   data_types, args, multiVars, configVars>>

\* create_auto_dual_axis_graphs runs for at least 2 types and 2 successes,
\* unless switched off.
AutoDualAxis ==
    /\ Len(data_types) >= 2
    /\ success_count >= 2
    /\ (args.dual_axis_only \/ ~ args.no_auto_correlation)

\* check_for_auto_correlation, for the pair (body_weight, calorie_intake).
DetectedPair ==
    /\ \E i \in 1..Len(data_types) : data_types[i].name = "body_weight"
    /\ \E i \in 1..Len(data_types) : data_types[i].name = "calorie_intake"

\* After the loop: the dual-axis graphs (whose own failures are caught, but
\* whose build_config_overrides is not), then the exit status.
Summary ==
    /\ pc = "start"
    /\ next_type = Len(data_types)
    /\ pc' = "exited"
    /\ main_ret' =
           IF AutoDualAxis /\ DetectedPair /\ build_config_overrides(args) # "none"
           THEN build_config_overrides(args)
           ELSE IF success_count = Len(data_types) THEN "0" ELSE "1"
    /\ UNCHANGED <<data, aggregation, result, component_data, raw_data, ret,
                   series, gap_days, segments, rollingVars, analyzerVars,
                   data_types, args, next_type, success_count, attempted, multiVars, configVars>>

NextBatch == ValidateDataType \/ AnalyzeSingleDataType \/ Summary

SpecBatch == InitBatch /\ [][NextBatch]_vars

NamesOf(types) == [i \in 1..Len(types) |-> types[i].name]

\* C17: in a batch run of main over several comma-separated data types,
\* every data type of the list is attempted, in order, whether or not an
\* earlier one was invalid, lacked data or raised an exception: when main
\* ends the attempted types are the whole list, a failing type only having
\* kept the success count lower.
C17_EveryTypeAttempted ==
    /\ attempted = SubSeq(NamesOf(data_types), 1, Len(attempted))
    /\ success_count <= Len(attempted)
    /\ pc = "exited" => attempted = NamesOf(data_types)

\* The same when --days stays within the calendar.
C17_HoldsWithinCalendar ==
    args.days # "beyond_calendar" => C17_EveryTypeAttempted

(***************************************************************************)
(* MultiDataAnalyzer: find_common_period, filter_data_by_period and        *)
(* create_dual_axis_graph.  analyzers maps a data type to the daily and    *)
(* rolling series of its analyzer; a period is None or a pair of dates.    *)
(***************************************************************************)
NoPeriod == [found |-> FALSE]

Period(start_date, end_date) == [found |-> TRUE, start |-> start_date, end |-> end_date]

\* The analyzers that have daily data, with their (min(dates), max(dates)).
DatesOfDaily(daily) == {DateOf(daily[i].date) : i \in 1..Len(daily)}

LeastOf(S) == CHOOSE x \in S : \A y \in S : x <= y

GreatestOf(S) == CHOOSE x \in S : \A y \in S : x >= y

DateRanges(all) ==
    [data_type \in {t \in DOMAIN all : all[t].daily_data # <<>>} |->
        [first |-> LeastOf(DatesOfDaily(all[data_type].daily_data)),
         last |-> GreatestOf(DatesOfDaily(all[data_type].daily_data))]]

\* Variant: the period from the earliest first date to the latest last date.
CommonOfUnion(date_ranges) ==
    Period(LeastOf({date_ranges[t].first : t \in DOMAIN date_ranges}),
           GreatestOf({date_ranges[t].last : t \in DOMAIN date_ranges}))

\* common_start = max(start_dates), common_end = min(end_dates)
CommonOf(date_ranges) ==
    IF GreatestOf({date_ranges[t].first : t \in DOMAIN date_ranges})
           > LeastOf({date_ranges[t].last : t \in DOMAIN date_ranges})
    THEN NoPeriod
    ELSE Period(GreatestOf({date_ranges[t].first : t \in DOMAIN date_ranges}),
                LeastOf({date_ranges[t].last : t \in DOMAIN date_ranges}))

find_common_period(all) ==
    IF DOMAIN DateRanges(all) = {} THEN NoPeriod ELSE CommonOf(DateRanges(all))

RECURSIVE FilterFrom(_, _, _, _)
FilterFrom(entries, i, start_date, end_date) ==
    IF i > Len(entries) THEN <<>>
    ELSE (IF start_date <= DateOf(entries[i].date) /\ DateOf(entries[i].date) <= end_date
          THEN <<entries[i]>> ELSE <<>>)
         \o FilterFrom(entries, i + 1, start_date, end_date)

filter_data_by_period(all, start_date, end_date) ==
    [data_type \in {t \in DOMAIN all : all[t].daily_data # <<>>} |->
        [daily |-> FilterFrom(all[data_type].daily_data, 1, start_date, end_date),
         rolling |-> FilterFrom(all[data_type].rolling_data, 1, start_date, end_date)]]

\* filtered_data.get(data_type, {}).get('daily') is missing or empty.
NoDaily(filtered, data_type) ==
    data_type \notin DOMAIN filtered \/ filtered[data_type].daily = <<>>

NotDrawn(period) == [common_period |-> period, graph_filename |-> "None", rendered |-> FALSE]

\* The chart is drawn and shown, and saved if save_graph is set.
Drawn(period, save) ==
    [common_period |-> period,
     graph_filename |-> IF save THEN "graph_filename" ELSE "None",
     rendered |-> TRUE]

DualAxisOfFiltered(filtered, period, primary, secondary, save) ==
    IF NoDaily(filtered, primary) \/ NoDaily(filtered, secondary)
    THEN NotDrawn(period)
    ELSE Drawn(period, save)

DualAxisOfPeriod(all, period, primary, secondary, save) ==
    IF ~ period.found THEN NotDrawn(period)
    ELSE DualAxisOfFiltered(filter_data_by_period(all, period.start, period.end),
                            period, primary, secondary, save)

create_dual_axis_graph(all, primary, secondary, save) ==
    IF primary \notin DOMAIN all \/ secondary \notin DOMAIN all
    THEN NotDrawn(NoPeriod)
    ELSE DualAxisOfPeriod(all, find_common_period(all), primary, secondary, save)

(***************************************************************************)
(* Inputs of the dual-axis specification: the analyzers of a primary and a *)
(* secondary data type, each with a daily series on a subset of the days   *)
(* 1..MaxDataDays (possibly none) and its rolling series; the secondary    *)
(* analyzer is absent when its data type has no configuration.             *)
(***************************************************************************)
ProcessedAnalyzer(S) ==
    [daily_data |-> DailySeriesOn(S),
     rolling_data |-> calculate_rolling_average(DailySeriesOn(S), rolling_window)]

AnalyzerSets ==
    {[data_type \in {"body_weight", "calorie_intake"} |->
         ProcessedAnalyzer(IF data_type = "body_weight" THEN P ELSE S)] :
        P \in SUBSET (1..MaxDataDays), S \in SUBSET (1..MaxDataDays)}
    \cup {[data_type \in {"body_weight"} |-> ProcessedAnalyzer(P)] :
             P \in SUBSET (1..MaxDataDays)}

InitMulti ==
    /\ pc = "start"
    /\ analyzers \in AnalyzerSets
    /\ save_graph \in BOOLEAN
    /\ common_period = NoPeriod
    /\ graph_filename = "none"
    /\ rendered = FALSE
    /\ data = <<>>
    /\ aggregation = "mean"
    /\ result = NoResult
    /\ component_data = NoComponents
    /\ raw_data = <<>>
    /\ ret = "none"
    /\ series = <<>>
    /\ gap_days = 0
    /\ segments = <<>>
    /\ IdleRolling
    /\ IdleAnalyzer
    /\ IdleBatch
    /\ IdleConfig

FindCommonPeriod ==
    /\ pc = "start"
    /\ common_period' = find_common_period(analyzers)
    /\ pc' = "period_found"
    /\ UNCHANGED <<data, aggregation, result, component_data, raw_data, ret,
                   series, gap_days, segments, rollingVars, analyzerVars, batchVars,
                   analyzers, save_graph, graph_filename, rendered, configVars>>

CreateDualAxisGraph ==
    /\ pc = "start"
    /\ \E r \in {create_dual_axis_graph(analyzers, "body_weight", "calorie_intake",
                                       save_graph)} :
          /\ common_period' = r.common_period
          /\ graph_filename' = r.graph_filename
          /\ rendered' = r.rendered
    /\ pc' = "graphed"
    /\ UNCHANGED <<data, aggregation, result, component_data, raw_data, ret,
                   series, gap_days, segments, rollingVars, analyzerVars, batchVars,
                   analyzers, save_graph, configVars>>

NextMulti == FindCommonPeriod \/ CreateDualAxisGraph

SpecMulti == InitMulti /\ [][NextMulti]_vars

\* Both metrics have an analyzer with daily points.
BothHaveDaily ==
    \A data_type \in {"body_weight", "calorie_intake"} :
        data_type \in DOMAIN analyzers /\ analyzers[data_type].daily_data # <<>>

DaysOfMetric(data_type) ==
    {analyzers[data_type].daily_data[i].date.day :
        i \in 1..Len(analyzers[data_type].daily_data)}

FirstDay(data_type) == CHOOSE d \in DaysOfMetric(data_type) :
                           \A e \in DaysOfMetric(data_type) : d <= e

LastDay(data_type) == CHOOSE d \in DaysOfMetric(data_type) :
                          \A e \in DaysOfMetric(data_type) : d >= e

LaterFirst ==
    IF FirstDay("body_weight") > FirstDay("calorie_intake")
    THEN FirstDay("body_weight") ELSE FirstDay("calorie_intake")

EarlierLast ==
    IF LastDay("body_weight") < LastDay("calorie_intake")
    THEN LastDay("body_weight") ELSE LastDay("calorie_intake")

\* The later of the two first dates is after the earlier of the two last dates.
RangesApart == BothHaveDaily /\ LaterFirst > EarlierLast

\* The ranges meet, but one metric has no daily point from LaterFirst to
\* EarlierLast.
NoPointInCommonRange ==
    /\ BothHaveDaily
    /\ LaterFirst <= EarlierLast
    /\ \E data_type \in {"body_weight", "calorie_intake"} :
          \A d \in DaysOfMetric(data_type) : d < LaterFirst \/ d > EarlierLast

\* C18: in a dual-metric comparison, when the daily date ranges of the two
\* metrics do not intersect, find_common_period returns (None, None) and
\* create_dual_axis_graph returns None with nothing drawn or saved; and
\* create_dual_axis_graph also returns None with nothing drawn or saved when
\* one of the metrics has no daily point inside the common range.
C18_NoCommonRangeNoGraph ==
    /\ (pc # "start" /\ RangesApart) => ~ common_period.found
    /\ (pc = "graphed" /\ (RangesApart \/ NoPointInCommonRange))
           => graph_filename = "None" /\ ~ rendered

\* Weight on days 1 and 2, calories on days 4 and 5: the ranges are apart,
\* no period is found and no graph is made.
C18_Witness ==
    /\ pc = "graphed"
    /\ RangesApart
    /\ DaysOfMetric("body_weight") = {1, 2}
    /\ DaysOfMetric("calorie_intake") = {4, 5}
    /\ save_graph
    /\ common_period = NoPeriod
    /\ graph_filename = "None"
    /\ ~ rendered

\* Weight on days 1 and 5, calories on days 2 to 4: the common range is days
\* 2 to 4, where there is no weight, and no graph is made.
C18_NoPointInRangeReached ==
    /\ pc = "graphed"
    /\ NoPointInCommonRange
    /\ DaysOfMetric("body_weight") = {1, 5}
    /\ DaysOfMetric("calorie_intake") = {2, 3, 4}
    /\ common_period = Period(2, 4)
    /\ graph_filename = "None"
    /\ ~ rendered

(***************************************************************************)
(* Configuration of a GenericHealthAnalyzer.  __init__ copies              *)
(* DEFAULT_ANALYSIS_CONFIG and updates the copy with config_overrides; of  *)
(* the defaults the entries read by the modelled methods are kept.         *)
(***************************************************************************)
DEFAULT_ANALYSIS_CONFIG ==
    [rolling_window |-> rolling_window, min_data_points |-> default_min_data_points]

AnalysisConfig(overrides) == Updated(DEFAULT_ANALYSIS_CONFIG, overrides)

\* A data_config that sends load_data to load_weight_prediction_data, without
\* and with the prediction_params that method reads.
PredictionConfigs ==
    {[special_processing |-> "weight_prediction"],
     [special_processing |-> "weight_prediction",
      prediction_params |-> [kcal_per_kg |-> 9000]]}

\* config_overrides without and with a kcal_per_kg entry.
KcalOverrides == {<<>>, [kcal_per_kg |-> 3600]}

\* A weight prediction analyzer as constructed, before load_data.
InitPrediction ==
    /\ pc = "start"
    /\ self_data_type = "weight_prediction"
    /\ config_overrides \in KcalOverrides
    /\ data_config \in PredictionConfigs
    /\ analysis_config = AnalysisConfig(config_overrides)
    /\ construct_ret = "None"
    /\ component_data \in ComponentFiles(RequiredPrediction)
    /\ raw_data = <<>>
    /\ ret = "none"
    /\ data = <<>>
    /\ aggregation = "mean"
    /\ result = NoResult
    /\ series = <<>>
    /\ gap_days = 0
    /\ segments = <<>>
    /\ IdleRolling
    /\ IdleAnalyzer
    /\ IdleBatch
    /\ IdleMulti

SpecPrediction == InitPrediction /\ [][NextDerived]_vars

\* Every record's theoreticalWeight is the first actual weight plus the
\* cumulative deficit over divisor.
DivisorIs(divisor) ==
    \A i \in 1..Len(raw_data) :
        raw_data[i].raw_data.theoretical_weight =
            RAdd(raw_data[1].raw_data.actual_weight,
                 RDivInt(raw_data[i].raw_data.cumulative_deficit, divisor))

\* C21: the kcal_per_kg supplied in the analysis configuration (the config
\* overrides given to the analyzer) is the divisor of the cumulative deficit
\* in theoreticalWeight, and 7200 is the divisor only when none is supplied.
C21_SuppliedKcalPerKgIsDivisor ==
    PredictionLoaded => DivisorIs(GetOr(analysis_config, "kcal_per_kg", 7200))

\* What the method does: the divisor is the kcal_per_kg of the data_config's
\* prediction_params, 7200 without one, whatever the analysis configuration.
C21_DivisorFromDataConfig ==
    PredictionLoaded =>
        DivisorIs(IF "prediction_params" \in DOMAIN data_config
                  THEN data_config.prediction_params.kcal_per_kg ELSE 7200)

\* An override of 3600 was supplied, five days were predicted, and the
\* divisor was 7200.
C21_OverrideIgnoredReached ==
    /\ PredictionLoaded
    /\ Len(raw_data) = 5
    /\ "kcal_per_kg" \in DOMAIN analysis_config
    /\ analysis_config.kcal_per_kg = 3600
    /\ "prediction_params" \notin DOMAIN data_config
    /\ raw_data[5].raw_data.cumulative_deficit = FromInt(500)
    /\ raw_data[5].raw_data.theoretical_weight = RAdd(FromInt(70), Rat(500, 7200))

(***************************************************************************)
(* From the command line to process_data: build_config_overrides turns the *)
(* arguments into config_overrides, GenericHealthAnalyzer.__init__ looks   *)
(* the data type up in HEALTH_DATA_CONFIGS and builds analysis_config, and   *)
(* load_data and process_data read both configurations.                    *)
(***************************************************************************)
\* The static mapping, by the entries of four metrics the modelled methods
\* read; it has no other special_processing than that of sleep_analysis.
HEALTH_DATA_CONFIGS ==
    [body_weight |-> [aggregation |-> "mean", rolling_window |-> 7],
     calorie_intake |-> [aggregation |-> "sum", rolling_window |-> 7],
     step_count |-> [aggregation |-> "sum", rolling_window |-> 7],
     sleep_analysis |-> [aggregation |-> "sum", rolling_window |-> 7,
                         special_processing |-> "sleep"]]

\* HEALTH_DATA_CONFIGS.get(data_type, None); None is the empty dict here,
\* both being false for __init__.
get_data_config(name) == GetOr(HEALTH_DATA_CONFIGS, name, <<>>)

\* The analysis parameters of build_config_overrides: an argument that is 0
\* gives no override.
ConfigOverrides(arguments) ==
    [key \in {k \in {"rolling_window", "min_data_points"} : arguments[k] # 0} |->
        arguments[key]]

\* self.data_config.get('rolling_window', self.analysis_config['rolling_window'])
RollingWindowOf(metric_config, config) ==
    GetOr(metric_config, "rolling_window", config.rolling_window)

DerivedTypes == {"calorie_balance", "weight_prediction"}

RequestedTypes == {"body_weight", "step_count", "sleep_analysis"} \cup DerivedTypes

RollingWindowArgs == {0, 3, rolling_window}

ConfigArguments ==
    [rolling_window : RollingWindowArgs, min_data_points : MinDataPointsOptions]

\* The rows of the metric's file: on each day no sample or one.
ConfigFiles ==
    {RowsFrom(choice, MaxDataDays) : choice \in [1..MaxDataDays -> {<<>>, <<70>>}]}

InitConfig ==
    /\ pc = "new"
    /\ self_data_type \in RequestedTypes
    /\ args \in ConfigArguments
    /\ data \in ConfigFiles
    /\ config_overrides = <<>>
    /\ data_config = <<>>
    /\ analysis_config = <<>>
    /\ construct_ret = "none"
    /\ aggregation = "mean"
    /\ result = NoResult
    /\ component_data = NoComponents
    /\ raw_data = <<>>
    /\ ret = "none"
    /\ series = <<>>
    /\ gap_days = 0
    /\ segments = <<>>
    /\ data_types = <<>>
    /\ next_type = 0
    /\ success_count = 0
    /\ attempted = <<>>
    /\ main_ret = "none"
    /\ IdleRolling
    /\ IdleAnalyzer
    /\ IdleMulti

\* GenericHealthAnalyzer(data_type, build_config_overrides(args)): ValueError
\* for a data type without configuration, before analysis_config is set.
Construct ==
    /\ pc = "new"
    /\ config_overrides' = ConfigOverrides(args)
    /\ data_config' = get_data_config(self_data_type)
    /\ IF DOMAIN get_data_config(self_data_type) = {}
       THEN /\ construct_ret' = "ValueError"
            /\ pc' = "raised"
            /\ UNCHANGED analysis_config
       ELSE /\ construct_ret' = "None"
            /\ pc' = "start"
            /\ analysis_config' = AnalysisConfig(ConfigOverrides(args))
    /\ UNCHANGED <<data, aggregation, result, component_data, raw_data, ret, series,
                   gap_days, segments, rollingVars, analyzerVars, batchVars,
                   multiVars, self_data_type>>

ConfiguredLoad ==
    /\ pc = "start"
    /\ construct_ret = "None"
    /\ \E r \in {load_data(GetOr(data_config, "special_processing", "none"), data,
                          component_data, raw_data)} :
          /\ raw_data' = r.raw_data
          /\ calls' = Called("load_data", r.ret)
          /\ pc' = AfterStep(r.ret, "loaded")
          /\ run_ret' = Outcome(r.ret)
    /\ UNCHANGED <<data, aggregation, result, component_data, ret, series, gap_days,
                   segments, rollingVars, special_processing, min_data_points,
                   self_daily_data, statistics, batchVars, multiVars, configVars>>

\* window_days records the window process_data computed the average with.
ConfiguredProcess ==
    /\ pc = "loaded"
    /\ construct_ret = "None"
    /\ \E r \in {process_data(GetOr(data_config, "special_processing", "none"),
                             raw_data, data_config.aggregation,
                             analysis_config.min_data_points,
                             RollingWindowOf(data_config, analysis_config),
                             self_daily_data, rolling_data)} :
          /\ self_daily_data' = r.daily_data
          /\ rolling_data' = r.rolling_data
          /\ calls' = Called("process_data", r.ret)
          /\ run_ret' = Outcome(r.ret)
    /\ window_days' = RollingWindowOf(data_config, analysis_config)
    /\ pc' = "processed"
    /\ UNCHANGED <<data, aggregation, result, component_data, raw_data, ret, series,
                   gap_days, segments, special_processing, min_data_points,
                   statistics, batchVars, multiVars, configVars>>

NextConfig == Construct \/ ConfiguredLoad \/ ConfiguredProcess

SpecConfig == InitConfig /\ [][NextConfig]_vars

\* process_data returned True, having computed the rolling average.
RollingComputed ==
    /\ pc = "processed"
    /\ calls[Len(calls)] = [step |-> "process_data", ret |-> "True"]

\* C22: with --rolling-window N on the command line, process_data computes
\* the rolling average of the analysed metric with window_days = N.
C22_RollingWindowArgumentUsed ==
    (RollingComputed /\ args.rolling_window # 0) =>
        /\ window_days = args.rolling_window
        /\ rolling_data = calculate_rolling_average(self_daily_data, args.rolling_window)

\* What process_data does: the window is the rolling_window of the metric's
\* own configuration, 7 for every metric, whatever the command line gives.
C22_WindowOfDataConfig ==
    RollingComputed =>
        /\ window_days = data_config.rolling_window
        /\ rolling_data = calculate_rolling_average(self_daily_data, 7)

\* --rolling-window 3 reached analysis_config, and five daily points were
\* averaged with window 7: five rolling points, not the three of window 3.
C22_ArgumentIgnoredReached ==
    /\ RollingComputed
    /\ self_data_type = "step_count"
    /\ args.rolling_window = 3
    /\ analysis_config.rolling_window = 3
    /\ Len(self_daily_data) = 5
    /\ window_days = 7
    /\ Len(rolling_data) = 5
    /\ Len(calculate_rolling_average(self_daily_data, 3)) = 3

\* C23: calorie_balance and weight_prediction are entries of the metric
\* configuration mapping: get_data_config returns for each a configuration
\* carrying the special-processing flag, and GenericHealthAnalyzer constructs
\* for them without ValueError.
C23_DerivedMetricsConfigured ==
    (pc # "new" /\ self_data_type \in DerivedTypes) =>
        /\ GetOr(data_config, "special_processing", "none") = self_data_type
        /\ construct_ret = "None"

\* The metrics of the mapping do construct, with their configuration.
C23_ConfiguredMetricsConstruct ==
    (pc # "new" /\ self_data_type \in DOMAIN HEALTH_DATA_CONFIGS) =>
        /\ data_config = HEALTH_DATA_CONFIGS[self_data_type]
        /\ construct_ret = "None"

\* The constructor raised ValueError for weight_prediction.
C23_ValueErrorReached ==
    /\ pc = "raised"
    /\ self_data_type = "weight_prediction"
    /\ DOMAIN data_config = {}
    /\ construct_ret = "ValueError"

(***************************************************************************)
(* MultiDataAnalyzer.analyze_correlation: load_all_data, process_all_data, *)
(* analyze_statistics of the analyzers that have daily data, and           *)
(* create_dual_axis_graph.  An analyzer is a record of the rows of its     *)
(* file (numeric values), its fields and what its load_data and            *)
(* process_data returned; a data type without configuration has no         *)
(* analyzer, __init__ having caught its ValueError.                        *)
(***************************************************************************)
NewAnalyzer(rows, agg) ==
    [rows |-> rows, aggregation |-> agg, raw_data |-> <<>>, daily_data |-> <<>>,
     rolling_data |-> <<>>, statistics |-> NoStatistics,
     load_ret |-> "none", process_ret |-> "none"]

LoadedAnalyzer(analyzer, loaded) ==
    [analyzer EXCEPT !.raw_data = loaded.raw_data, !.load_ret = loaded.ret]

\* for data_type, analyzer in self.analyzers.items(): analyzer.load_data()
LoadAll(all) ==
    [t \in DOMAIN all |->
        LoadedAnalyzer(all[t], load_data("none", all[t].rows, NoComponents,
                                         all[t].raw_data))]

ProcessedAs(analyzer, processed) ==
    [analyzer EXCEPT !.daily_data = processed.daily_data,
                     !.rolling_data = processed.rolling_data,
                     !.process_ret = processed.ret]

\* if analyzer.raw_data and analyzer.process_data(): success_count += 1
ProcessAll(all, min_points) ==
    [t \in DOMAIN all |->
        IF all[t].raw_data = <<>> THEN all[t]
        ELSE ProcessedAs(all[t],
                 process_data("none", all[t].raw_data, all[t].aggregation, min_points,
                              rolling_window, all[t].daily_data, all[t].rolling_data))]

\* if analyzer.daily_data: analyzer.analyze_statistics()
SummarizeAll(all) ==
    [t \in DOMAIN all |->
        [all[t] EXCEPT !.statistics =
            analyze_statistics(all[t].daily_data, all[t].rolling_data, @)]]

\* success_count == 0 makes load_all_data and process_all_data return False.
load_all_data(all) ==
    IF \E t \in DOMAIN all : all[t].load_ret = "True" THEN "True" ELSE "False"

process_all_data(all) ==
    IF \E t \in DOMAIN all : all[t].process_ret = "True" THEN "True" ELSE "False"

\* analyze_correlation ends with return True whatever the graph call gave.
CorrelationReturn(graph) == "True"

CorrelationAfterProcess(all, primary, secondary, save) ==
    IF process_all_data(all) # "True"
    THEN [ret |-> "False", analyzers |-> all, graph |-> NotDrawn(NoPeriod)]
    ELSE [ret |-> CorrelationReturn(create_dual_axis_graph(SummarizeAll(all), primary,
                                                            secondary, save)),
          analyzers |-> SummarizeAll(all),
          graph |-> create_dual_axis_graph(SummarizeAll(all), primary, secondary, save)]

CorrelationAfterLoad(all, primary, secondary, min_points, save) ==
    IF load_all_data(all) # "True"
    THEN [ret |-> "False", analyzers |-> all, graph |-> NotDrawn(NoPeriod)]
    ELSE CorrelationAfterProcess(ProcessAll(all, min_points), primary, secondary, save)

analyze_correlation(all, primary, secondary, min_points, save) ==
    CorrelationAfterLoad(LoadAll(all), primary, secondary, min_points, save)

\* The rows of a file with one sample of 70 on each day of S.
RowsOfDays(S) ==
    RowsFrom([d \in 1..MaxDataDays |-> IF d \in S THEN <<70>> ELSE <<>>], MaxDataDays)

\* The pairs compared: weight-calorie, and weight-balance, whose secondary
\* data type has no configuration.
ComparedPairs == {<<"body_weight", "calorie_intake">>, <<"body_weight", "calorie_balance">>}

InitCorrelation ==
    /\ pc = "start"
    /\ data_types \in ComparedPairs
    /\ \E P \in SUBSET (1..MaxDataDays), S \in SUBSET (1..MaxDataDays) :
          analyzers =
              [t \in {data_types[1], data_types[2]} \cap DOMAIN HEALTH_DATA_CONFIGS |->
                  NewAnalyzer(RowsOfDays(IF t = data_types[1] THEN P ELSE S),
                              HEALTH_DATA_CONFIGS[t].aggregation)]
    /\ min_data_points \in MinDataPointsOptions
    /\ save_graph \in BOOLEAN
    /\ common_period = NoPeriod
    /\ graph_filename = "none"
    /\ rendered = FALSE
    /\ run_ret = "none"
    /\ special_processing = "none"
    /\ self_daily_data = <<>>
    /\ statistics = NoStatistics
    /\ calls = <<>>
    /\ args = <<>>
    /\ next_type = 0
    /\ success_count = 0
    /\ attempted = <<>>
    /\ main_ret = "none"
    /\ data = <<>>
    /\ aggregation = "mean"
    /\ result = NoResult
    /\ component_data = NoComponents
    /\ raw_data = <<>>
    /\ ret = "none"
    /\ series = <<>>
    /\ gap_days = 0
    /\ segments = <<>>
    /\ IdleRolling
    /\ IdleConfig

LoadAllData ==
    /\ pc = "start"
    /\ analyzers' = LoadAll(analyzers)
    /\ pc' = IF load_all_data(LoadAll(analyzers)) = "True" THEN "all_loaded" ELSE "returned"
    /\ run_ret' = IF load_all_data(LoadAll(analyzers)) = "True" THEN run_ret ELSE "False"
    /\ UNCHANGED <<data, aggregation, result, component_data, raw_data, ret, series,
                   gap_days, segments, rollingVars, special_processing,
                   min_data_points, self_daily_data, statistics, calls, batchVars,
                   save_graph, common_period, graph_filename, rendered, configVars>>

ProcessAllData ==
    /\ pc = "all_loaded"
    /\ \E all \in {ProcessAll(analyzers, min_data_points)} :
          /\ analyzers' = all
          /\ pc' = IF process_all_data(all) = "True" THEN "all_processed" ELSE "returned"
          /\ run_ret' = IF process_all_data(all) = "True" THEN run_ret ELSE "False"
    /\ UNCHANGED <<data, aggregation, result, component_data, raw_data, ret, series,
                   gap_days, segments, rollingVars, special_processing,
                   min_data_points, self_daily_data, statistics, calls, batchVars,
                   save_graph, common_period, graph_filename, rendered, configVars>>

AnalyzeAllStatistics ==
    /\ pc = "all_processed"
    /\ analyzers' = SummarizeAll(analyzers)
    /\ pc' = "all_summarized"
    /\ UNCHANGED <<data, aggregation, result, component_data, raw_data, ret, series,
                   gap_days, segments, rollingVars, analyzerVars, batchVars,
                   save_graph, common_period, graph_filename, rendered, configVars>>

CorrelationGraph ==
    /\ pc = "all_summarized"
    /\ \E r \in {create_dual_axis_graph(analyzers, data_types[1], data_types[2],
                                       save_graph)} :
          /\ common_period' = r.common_period
          /\ graph_filename' = r.graph_filename
          /\ rendered' = r.rendered
          /\ run_ret' = CorrelationReturn(r)
    /\ pc' = "returned"
    /\ UNCHANGED <<data, aggregation, result, component_data, raw_data, ret, series,
                   gap_days, segments, rollingVars, special_processing,
                   min_data_points, self_daily_data, statistics, calls, batchVars,
                   analyzers, save_graph, configVars>>

NextCorrelation ==
    LoadAllData \/ ProcessAllData \/ AnalyzeAllStatistics \/ CorrelationGraph

SpecCorrelation == InitCorrelation /\ [][NextCorrelation]_vars

\* The step-by-step run ends as analyze_correlation on the same analyzers.
RunIsAnalyzeCorrelation ==
    pc = "returned" =>
        \E r \in {analyze_correlation(
                      [t \in DOMAIN analyzers |->
                          NewAnalyzer(analyzers[t].rows, analyzers[t].aggregation)],
                      data_types[1], data_types[2], min_data_points, save_graph)} :
            /\ r.ret = run_ret
            /\ r.analyzers = analyzers
            /\ r.graph.rendered = rendered

\* process_data of the metric returned False for want of daily points.
BelowThreshold(t) ==
    /\ analyzers[t].process_ret = "False"
    /\ analyzers[t].raw_data # <<>>
    /\ Len(analyzers[t].daily_data) < min_data_points

\* The analyzers whose process_data returned True.
ProcessedOnes ==
    [t \in {u \in DOMAIN analyzers : analyzers[u].process_ret = "True"} |->
        analyzers[t]]

\* C27: in a dual-metric comparison a metric whose daily series has fewer
\* than min_data_points points, whose process_data returned False, is not
\* summarised by analyze_statistics, not used by find_common_period and not
\* plotted by create_dual_axis_graph.
C27_FailedMetricLeftOut ==
    \A t \in DOMAIN analyzers :
        BelowThreshold(t) =>
            /\ DOMAIN analyzers[t].statistics = {}
            /\ pc = "returned" =>
                  /\ common_period = find_common_period(ProcessedOnes)
                  /\ ~ rendered

\* When no metric is below the threshold, the metrics summarised and those
\* that enter the common period are processed ones.
C27_HoldsWhenNoneFails ==
    (\A t \in DOMAIN analyzers : ~ BelowThreshold(t)) =>
        \A t \in DOMAIN analyzers :
            (DOMAIN analyzers[t].statistics # {} \/ t \in DOMAIN DateRanges(analyzers))
                => analyzers[t].process_ret = "True"

\* min_data_points 5, weight on five days, calories on days 2 and 3 only:
\* the calories are summarised, bound the common period and are plotted.
C27_FailedMetricPlottedReached ==
    /\ pc = "returned"
    /\ min_data_points = 5
    /\ DOMAIN analyzers = {"body_weight", "calorie_intake"}
    /\ BelowThreshold("calorie_intake")
    /\ analyzers["body_weight"].process_ret = "True"
    /\ Len(analyzers["body_weight"].daily_data) = 5
    /\ analyzers["calorie_intake"].statistics.count = 2
    /\ common_period = Period(2, 3)
    /\ rendered

\* C28: analyze_correlation returns True only if both requested metrics were
\* loaded and processed and the dual-axis comparison was produced, not
\* abandoned for a missing analyzer, an empty common period or no data in the
\* common period.
C28_TrueOnlyIfGraphProduced ==
    (pc = "returned" /\ run_ret = "True") =>
        /\ \A i \in 1..2 :
              /\ data_types[i] \in DOMAIN analyzers
              /\ analyzers[data_types[i]].load_ret = "True"
              /\ analyzers[data_types[i]].process_ret = "True"
        /\ rendered

\* What holds: True is returned exactly when at least one analyzer was
\* loaded and at least one processed.
C28_TrueIffOneMetricProcessed ==
    pc = "returned" =>
        (run_ret = "True" <=> \E t \in DOMAIN analyzers : analyzers[t].process_ret = "True")

\* weight-balance: there is no calorie_balance analyzer, the weight alone is
\* loaded and processed, no graph is made and True is returned.
C28_TrueWithoutGraphReached ==
    /\ pc = "returned"
    /\ data_types = <<"body_weight", "calorie_balance">>
    /\ DOMAIN analyzers = {"body_weight"}
    /\ analyzers["body_weight"].process_ret = "True"
    /\ ~ rendered
    /\ graph_filename = "None"
    /\ run_ret = "True"

(***************************************************************************)
(* analyze_single_data_type step by step: validation and configuration,    *)
(* then either run_analysis (the steps of the analyzer above) or, with     *)
(* --no-graph, the four calls made one after the other whatever they       *)
(* return.  ret is what analyze_single_data_type returns or raises.        *)
(***************************************************************************)
SingleArguments ==
    [days : DaysOptions, no_graph : BOOLEAN, dual_axis_only : {FALSE},
     no_auto_correlation : {FALSE}]

\* The rows of the metric's file: one sample on each day of a set of days,
\* possibly with a short row.
SingleFiles ==
    {RowsOfDays(S) \o ShortRow(short) : S \in SUBSET (1..MaxDataDays), short \in BOOLEAN}

InitSingle ==
    /\ pc = "single"
    /\ self_data_type \in {"body_weight", "nonsense"}
    /\ args \in SingleArguments
    /\ data \in SingleFiles
    /\ min_data_points \in MinDataPointsOptions
    /\ window_days = rolling_window
    /\ special_processing = "none"
    /\ aggregation = "mean"
    /\ component_data = NoComponents
    /\ raw_data = <<>>
    /\ self_daily_data = <<>>
    /\ rolling_data = <<>>
    /\ statistics = NoStatistics
    /\ calls = <<>>
    /\ run_ret = "none"
    /\ ret = "none"
    /\ result = NoResult
    /\ series = <<>>
    /\ gap_days = 0
    /\ segments = <<>>
    /\ data_types = <<>>
    /\ next_type = 0
    /\ success_count = 0
    /\ attempted = <<>>
    /\ main_ret = "none"
    /\ config_overrides = <<>>
    /\ data_config = <<>>
    /\ analysis_config = <<>>
    /\ construct_ret = "none"
    /\ IdleMulti

\* validate_data_type and build_config_overrides, before the try block.
BeginSingle ==
    /\ pc = "single"
    /\ IF ~ validate_data_type(self_data_type)
       THEN ret' = "False" /\ pc' = "exited"
       ELSE IF build_config_overrides(args) # "none"
       THEN ret' = build_config_overrides(args) /\ pc' = "exited"
       ELSE ret' = ret /\ pc' = IF args.no_graph THEN "no_graph" ELSE "start"
    /\ UNCHANGED <<data, aggregation, result, component_data, raw_data, series,
                   gap_days, segments, rollingVars, analyzerVars, batchVars,
                   multiVars, configVars>>

\* return analyze_health_data(data_type, **config_overrides), an exception
\* being caught and turned into False.
ReturnSingle ==
    /\ pc = "returned"
    /\ ret' = IF IsException(run_ret) THEN "False" ELSE run_ret
    /\ pc' = "exited"
    /\ UNCHANGED <<data, aggregation, result, component_data, raw_data, series,
                   gap_days, segments, rollingVars, analyzerVars, batchVars,
                   multiVars, configVars>>

\* analyzer.load_data(), its result unused.
NoGraphLoad ==
    /\ pc = "no_graph"
    /\ \E r \in {load_data(special_processing, data, component_data, raw_data)} :
          /\ raw_data' = r.raw_data
          /\ calls' = Called("load_data", r.ret)
    /\ pc' = "no_graph_loaded"
    /\ UNCHANGED <<data, aggregation, result, component_data, ret, series, gap_days,
                   segments, rollingVars, special_processing, min_data_points,
                   self_daily_data, statistics, run_ret, batchVars, multiVars,
                   configVars>>

\* analyzer.process_data(), its result unused; an exception ends the try
\* block with False.
NoGraphProcess ==
    /\ pc = "no_graph_loaded"
    /\ \E r \in {process_data(special_processing, raw_data, aggregation,
                             min_data_points, window_days, self_daily_data,
                             rolling_data)} :
          /\ self_daily_data' = r.daily_data
          /\ rolling_data' = r.rolling_data
          /\ calls' = Called("process_data", r.ret)
          /\ pc' = IF IsException(r.ret) THEN "exited" ELSE "no_graph_processed"
          /\ ret' = IF IsException(r.ret) THEN "False" ELSE ret
    /\ UNCHANGED <<data, aggregation, result, component_data, raw_data, series,
                   gap_days, segments, window_days, special_processing,
                   min_data_points, statistics, run_ret, batchVars, multiVars,
                   configVars>>

\* print_statistics prints unless there are no statistics.
Printed(stats) == IF DOMAIN stats = {} THEN "None" ELSE "printed"

\* analyzer.analyze_statistics(); analyzer.print_statistics(); return True
NoGraphStatistics ==
    /\ pc = "no_graph_processed"
    /\ \E stats \in {analyze_statistics(self_daily_data, rolling_data, statistics)} :
          /\ statistics' = stats
          /\ calls' = Append(Called("analyze_statistics", "None"),
                             [step |-> "print_statistics", ret |-> Printed(stats)])
    /\ ret' = "True"
    /\ pc' = "exited"
    /\ UNCHANGED <<data, aggregation, result, component_data, raw_data, series,
                   gap_days, segments, rollingVars, special_processing,
                   min_data_points, self_daily_data, run_ret, batchVars, multiVars,
                   configVars>>

NextSingle ==
    \/ BeginSingle
    \/ LoadData
    \/ ProcessData
    \/ AnalyzeStatistics
    \/ CreateVisualization
    \/ ReturnSingle
    \/ NoGraphLoad
    \/ NoGraphProcess
    \/ NoGraphStatistics

SpecSingle == InitSingle /\ [][NextSingle]_vars

\* The step was called and returned True.
Succeeded(step) == \E k \in 1..Len(calls) : calls[k] = [step |-> step, ret |-> "True"]

\* C29: analyze_single_data_type returns True only if load_data and
\* process_data both succeeded, in the normal mode and with --no-graph
\* alike; with --no-graph no statistics are computed or printed for a metric
\* whose load or processing failed.
C29_TrueOnlyIfLoadedAndProcessed ==
    pc = "exited" =>
        /\ ret = "True" => (Succeeded("load_data") /\ Succeeded("process_data"))
        /\ (args.no_graph /\ ~ (Succeeded("load_data") /\ Succeeded("process_data")))
              => /\ DOMAIN statistics = {}
                 /\ \A k \in 1..Len(calls) : calls[k].ret # "printed"

\* Without --no-graph the result is True only after both steps succeeded.
C29_HoldsInNormalMode ==
    ~ args.no_graph => C29_TrueOnlyIfLoadedAndProcessed

\* --no-graph, samples on two days and min_data_points 5: process_data
\* returned False, the statistics of the two days were computed and printed,
\* and True was returned.
C29_TrueAfterFailureReached ==
    /\ pc = "exited"
    /\ args.no_graph
    /\ min_data_points = 5
    /\ Len(calls) = 4
    /\ calls[1] = [step |-> "load_data", ret |-> "True"]
    /\ calls[2] = [step |-> "process_data", ret |-> "False"]
    /\ Len(self_daily_data) = 2
    /\ statistics.count = 2
    /\ calls[4] = [step |-> "print_statistics", ret |-> "printed"]
    /\ ret = "True"

(***************************************************************************)
(* main of analyze_health_data.py from its first branch: --correlation is  *)
(* handed to handle_correlation_analysis, whose boolean main returns as it *)
(* is; otherwise the data types are analysed by the loop above.  The       *)
(* process exit status is that of exit(main()).                            *)
(***************************************************************************)
CorrelationOptions == {"None", "weight-calorie", "weight-balance"}

\* handle_correlation_analysis: the pair compared for each choice.
PairOf(correlation) ==
    IF correlation = "weight-calorie" THEN <<"body_weight", "calorie_intake">>
    ELSE <<"body_weight", "calorie_balance">>

\* The parsed command line: with --correlation the other switches are left
\* at their defaults.
MainArguments ==
    [days : DaysOptions, no_graph : BOOLEAN, dual_axis_only : BOOLEAN,
     no_auto_correlation : BOOLEAN, correlation : {"None"}]
    \cup [days : DaysOptions, no_graph : {FALSE}, dual_axis_only : {FALSE},
          no_auto_correlation : {FALSE},
          correlation : CorrelationOptions \ {"None"}]

\* MultiDataAnalyzer(data_types, config_overrides): one analyzer per data
\* type that has a configuration, on the rows of its file.
MultiAnalyzers(pair, primary_days, secondary_days) ==
    [t \in {pair[1], pair[2]} \cap DOMAIN HEALTH_DATA_CONFIGS |->
        NewAnalyzer(RowsOfDays(IF t = pair[1] THEN primary_days ELSE secondary_days),
                    HEALTH_DATA_CONFIGS[t].aggregation)]

InitMain ==
    /\ pc = "main"
    /\ args \in MainArguments
    /\ IF args.correlation = "None"
       THEN /\ data_types \in UNION {[1..n -> DataTypes] : n \in 0..2}
            /\ analyzers = <<>>
            /\ save_graph = TRUE
       ELSE /\ data_types = <<>>
            /\ \E P \in SUBSET (1..MaxDataDays), S \in SUBSET (1..MaxDataDays) :
                  analyzers = MultiAnalyzers(PairOf(args.correlation), P, S)
            /\ save_graph \in BOOLEAN
    /\ common_period = NoPeriod
    /\ graph_filename = "none"
    /\ rendered = FALSE
    /\ next_type = 0
    /\ success_count = 0
    /\ attempted = <<>>
    /\ main_ret = "none"
    /\ data = <<>>
    /\ aggregation = "mean"
    /\ result = NoResult
    /\ component_data = NoComponents
    /\ raw_data = <<>>
    /\ ret = "none"
    /\ series = <<>>
    /\ gap_days = 0
    /\ segments = <<>>
    /\ IdleRolling
    /\ IdleAnalyzer
    /\ IdleConfig

\* if args.correlation: return handle_correlation_analysis(args), whose
\* build_config_overrides is outside its try block.
HandleCorrelationAnalysis ==
    /\ pc = "main"
    /\ args.correlation # "None"
    /\ IF build_config_overrides(args) # "none"
       THEN /\ main_ret' = build_config_overrides(args)
            /\ UNCHANGED multiVars
       ELSE \E r \in {analyze_correlation(analyzers, PairOf(args.correlation)[1],
                                          PairOf(args.correlation)[2],
                                          default_min_data_points, save_graph)} :
                /\ main_ret' = IF IsException(r.ret) THEN "False" ELSE r.ret
                /\ analyzers' = r.analyzers
                /\ common_period' = r.graph.common_period
                /\ graph_filename' = r.graph.graph_filename
                /\ rendered' = r.graph.rendered
                /\ UNCHANGED save_graph
    /\ pc' = "exited"
    /\ UNCHANGED <<data, aggregation, result, component_data, raw_data, ret, series,
                   gap_days, segments, rollingVars, analyzerVars, data_types, args,
                   next_type, success_count, attempted, configVars>>

\* if not args.data_type: return 1
NoDataType ==
    /\ pc = "main"
    /\ args.correlation = "None"
    /\ data_types = <<>>
    /\ main_ret' = "1"
    /\ pc' = "exited"
    /\ UNCHANGED <<data, aggregation, result, component_data, raw_data, ret, series,
                   gap_days, segments, rollingVars, analyzerVars, data_types, args,
                   next_type, success_count, attempted, multiVars, configVars>>

\* data_types = [dt.strip() for dt in args.data_type.split(',')]
SplitDataTypes ==
    /\ pc = "main"
    /\ args.correlation = "None"
    /\ data_types # <<>>
    /\ pc' = "start"
    /\ UNCHANGED <<data, aggregation, result, component_data, raw_data, ret, series,
                   gap_days, segments, rollingVars, analyzerVars, batchVars,
                   multiVars, configVars>>

NextMain ==
    \/ HandleCorrelationAnalysis
    \/ NoDataType
    \/ SplitDataTypes
    \/ ValidateDataType
    \/ AnalyzeSingleDataType
    \/ Summary

SpecMain == InitMain /\ [][NextMain]_vars

\* exit(value): 0 and False end the process with status 0, 1 and True with
\* status 1, and so does an uncaught exception.
ExitStatus(value) == IF value \in {"0", "False"} THEN 0 ELSE 1

\* The analysis of one requested data type succeeded: it is a configured
\* type whose data was loaded and processed.
TypeSucceeded(data_type) ==
    /\ validate_data_type(data_type.name)
    /\ build_config_overrides(args) = "none"
    /\ run_analysis(data_type.rows, "mean", default_min_data_points, rolling_window)
           = "True"

\* Every requested analysis succeeded: the dual-axis graph of --correlation
\* was drawn, or every data type of --data-type was analysed.
RequestedSucceeded ==
    IF args.correlation # "None" THEN rendered
    ELSE /\ data_types # <<>>
         /\ \A i \in 1..Len(data_types) : TypeSucceeded(data_types[i])

\* C30: the value main returns gives exit status 0 if and only if every
\* requested analysis succeeded, and a non-zero status otherwise, for
\* --data-type and for --correlation invocations alike.
C30_ExitZeroIffAllSucceeded ==
    pc = "exited" => (ExitStatus(main_ret) = 0 <=> RequestedSucceeded)

\* It holds for --data-type runs that draw the individual graphs.
C30_HoldsForGraphedDataTypes ==
    (args.correlation = "None" /\ ~ args.no_graph /\ ~ DualAxisOnlyMode)
        => C30_ExitZeroIffAllSucceeded

\* --correlation weight-calorie with both files complete: the graph is
\* drawn, main returns True and the exit status is 1.
C30_DrawnCorrelationExitsOneReached ==
    /\ pc = "exited"
    /\ args.correlation = "weight-calorie"
    /\ rendered
    /\ main_ret = "True"
    /\ ExitStatus(main_ret) = 1

\* --correlation with no file: main returns False and the exit status is 0.
C30_FailedCorrelationExitsZeroReached ==
    /\ pc = "exited"
    /\ args.correlation # "None"
    /\ ~ rendered
    /\ main_ret = "False"
    /\ ExitStatus(main_ret) = 0

====
